---- MODULE Spec2Model ----
(***************************************************************************)
(* A model of the websnake game server (GameServer.setupSocketHandlers):   *)
(* the player registry, the join / move / killPlayer / disconnect socket   *)
(* handlers, and the events each handler emits.                            *)
(*                                                                         *)
(* Two copies of the server exist in the repository.  Spec models the copy *)
(* with the layered self-kill checks (src/unnamed/part_000); SpecTs models *)
(* src/src/game/server/GameServer.ts, whose join, move and disconnect      *)
(* handlers are the same and whose kill scoring is simpler.  SpecTrail is  *)
(* one session of the first copy that keeps moving until its trail has     *)
(* overflowed the cap.  SpecJoin is the first copy with joins that draw     *)
(* every palette colour.  SpecClient is one GameClient (the client of      *)
(* src/unnamed/part_001 that tracks invincibility): its init,              *)
(* existingPlayers, playerJoined, playerMoved and selfRespawn listeners,   *)
(* movePlayer, processMovement and the collision checks.                   *)
(* SpecRace is that client and the first copy of the server joined by two  *)
(* channels that keep the order of the events put in them.  SpecRoster is  *)
(* the first copy of the server with the players Map of the client of each *)
(* session, fed by the events the server emits to its socket.              *)
(*                                                                         *)
(* JavaScript values are encoded as follows.                               *)
(*   - an optional boolean field is one of "true", "false", "undefined";   *)
(*     only "true" is  === true  and only "true" is truthy;                *)
(*   - an optional string field (killedBy, collisionType, direction, id)  *)
(*     is the empty string when it is missing;                             *)
(*   - an optional number field (invincibleUntil) is 0 when it is missing: *)
(*     both are falsy;                                                     *)
(*   - an event sent with no payload object at all has present = FALSE.    *)
(* Date.now() is the variable now; a handler reads it once.                *)
(*                                                                         *)
(* ev, out, threw and before are history variables: they describe one      *)
(* handler step, the event it handled, what it emitted, whether it threw   *)
(* and the registry it found.  They                                        *)
(* are recorded for the last step of a run only: every handler step either *)
(* records them and ends the run (observed), or records nothing and lets   *)
(* the run go on.  Every handler step from every reachable registry has a  *)
(* recorded successor, so a property of "the state right after a handler"  *)
(* is checked for every handler step of every run.                         *)
(***************************************************************************)
EXTENDS Integers, Sequences, FiniteSets, TLC

\* ---------------------------------------------------------------- constants

\* Program constants: the literals of the server and the client code.
TrailCap == 40
JoinInvincibleMs == 2000
RespawnInvincibleMs == 2000
CenterX == 400
CenterY == 300
SpawnRange == 500
SpriteRows == 5
PaletteSize == 16
ClientMoveSpeed == 10
ArenaMaxX == 780

\* Bounds of the model.
MaxMoves == 1
MaxJoins == 3
MaxKills == 1
MaxOverflow == 2

\* Socket ids.  A socket id is never reused: a session connects once and
\* disconnects once.
Sessions == {"s1", "s2"}

Tri == {"true", "false", "undefined"}
Truthy(v) == v = "true"
IsTrue(v) == v = "true"

\* The values Date.now() takes: the start, and one invincibility window later
\* (a window granted at the start has then just expired).
StartTime == JoinInvincibleMs
Times == {StartTime, StartTime + JoinInvincibleMs}

VARIABLES
    connected,    \* the sockets that are open (io.sockets)
    closed,       \* the sockets that have disconnected
    players,      \* GameServer.players: session id -> Player
    now,          \* Date.now()
    observed,     \* the run ended with a recorded handler step
    ev,           \* the recorded event: [op, sid, data], and for killPlayer
                  \* had, the sender's player before the handler ran
    out,          \* the recorded emits, in order: [event, to, payload]
    threw,        \* the recorded handler ended in an uncaught TypeError
    before,       \* the registry as the recorded handler found it
    appended,     \* session id -> the segments pushed since the trail was last []
    joins,        \* number of join events processed
    disconnects,  \* number of disconnect events processed
    registered,   \* number of join events that added a new key to players
    removed,      \* number of disconnect events that deleted a key of players
    moves,        \* number of move events processed
    kills,        \* number of killPlayer events processed
    currentPlayer,          \* GameClient.currentPlayer: the id of the client's
                            \* own Player object, "" while it is null
    clientPlayers,          \* GameClient.players, in Map insertion order
    clientInvincibleUntil,  \* GameClient.invincibleUntil
    isDead,                 \* GameClient.isDead
    reviveTimers,           \* due times of the pending isDead = false timeouts
    lastClaim,              \* the last killPlayer event the client emitted,
                            \* <<>> before the first
    checked,                \* the last run of checkCollisions
    joinGrant,              \* invincibleUntil of the init payload
    frames,                 \* number of processMovement frames run
    respawnDue,             \* the server has yet to answer the last claim
    toServer,               \* the events the client has emitted and the server
                            \* has not handled yet, oldest first
    inbox,                  \* session id -> the events the server has emitted
                            \* to it and its client has not handled yet
    rosters,                \* session id -> the players Map of its client
    currentOf,              \* session id -> currentPlayer of its client
    race                    \* what the client sent around its last respawn

clientVars == <<currentPlayer, clientPlayers, clientInvincibleUntil, isDead,
                reviveTimers, lastClaim, checked, joinGrant, frames, respawnDue>>

netVars == <<toServer, inbox, rosters, currentOf, race>>

vars == <<connected, closed, players, now, observed, ev, out, threw, before,
          appended, joins, disconnects, registered, removed, moves, kills,
          clientVars, netVars>>

hist == <<observed, ev, out, threw, before>>

\* ------------------------------------------------------------------ helpers

Has(m, k) == k \in DOMAIN m
MapSet(m, k, v) == [q \in DOMAIN m \cup {k} |-> IF q = k THEN v ELSE m[q]]
\* Mutant: the key is not removed.
MapDeleteKeeps(m, k) == m
MapDelete(m, k) == [q \in DOMAIN m \ {k} |-> m[q]]

Emit(event, to, payload) == [event |-> event, to |-> to, payload |-> payload]
\* socket.emit: to the sender only
ToSocket(s) == {s}
\* socket.broadcast.emit: to every open socket but the sender
ToBroadcast(s) == connected \ {s}
\* io.emit: to every open socket
ToAll == connected

EmittedEvents(name) == {i \in 1..Len(out) : out[i].event = name}

Min(a, b) == IF a < b THEN a ELSE b
LastN(seq, n) == SubSeq(seq, Len(seq) - Min(n, Len(seq)) + 1, Len(seq))

\* --------------------------------------------------------------------- Init

NoEvent == [op |-> "none", sid |-> "", data |-> [present |-> FALSE]]

NoRace == [inFlight |-> FALSE, later |-> FALSE]

NoCheck == [ran |-> FALSE, at |-> 0, players |-> <<>>, awaiting |-> FALSE]

Init ==
    /\ connected = {}
    /\ closed = {}
    /\ players = <<>>
    /\ now = StartTime
    /\ observed = FALSE
    /\ ev = NoEvent
    /\ out = <<>>
    /\ threw = FALSE
    /\ before = <<>>
    /\ appended = [s \in Sessions |-> <<>>]
    /\ joins = 0
    /\ disconnects = 0
    /\ registered = 0
    /\ removed = 0
    /\ moves = 0
    /\ kills = 0
    /\ currentPlayer = ""
    /\ clientPlayers = <<>>
    /\ clientInvincibleUntil = 0
    /\ isDead = FALSE
    /\ reviveTimers = {}
    /\ lastClaim = <<>>
    /\ checked = NoCheck
    /\ joinGrant = 0
    /\ frames = 0
    /\ respawnDue = FALSE
    /\ toServer = <<>>
    /\ inbox = [s \in Sessions |-> <<>>]
    /\ rosters = [s \in Sessions |-> <<>>]
    /\ currentOf = [s \in Sessions |-> ""]
    /\ race = NoRace

\* A handler step that handled event e, emitted o and threw (or not): it is
\* recorded and the run ends, or it is not recorded and the run goes on.
Record(e, o, th) ==
    \/ /\ observed' = TRUE
       /\ ev' = e
       /\ out' = o
       /\ threw' = th
       /\ before' = players
    \/ /\ observed' = FALSE
       /\ ev' = NoEvent
       /\ out' = <<>>
       /\ threw' = FALSE
       /\ before' = <<>>

\* ------------------------------------------------------- clock and sockets

Tick ==
    /\ ~observed
    /\ \E t \in Times : t > now /\ now' = t
    /\ UNCHANGED <<connected, closed, players, appended, hist,
                   joins, disconnects, registered, removed, moves, kills>>
    /\ UNCHANGED <<clientVars, netVars>>

\* io.on("connection", socket => ...): the socket is open, no player yet.
Connect(s) ==
    /\ ~observed
    /\ s \notin connected
    /\ s \notin closed
    /\ connected' = connected \cup {s}
    /\ UNCHANGED <<closed, players, now, appended, hist,
                   joins, disconnects, registered, removed, moves, kills>>
    /\ UNCHANGED <<clientVars, netVars>>

\* --------------------------------------------------------------------- join

\* Math.floor(Math.random() * 500): any integer in 0 .. 499.
RandomCoord == 0 .. (SpawnRange - 1)
\* Math.floor(Math.random() * 5)
RandomSpriteRow == 0 .. (SpriteRows - 1)
\* getRandomColor: colors[Math.floor(Math.random() * colors.length)], any of
\* the 16 palette entries (the palette is modelled by its indices).
getRandomColor == 1 .. PaletteSize

\* Mutant: the new player gets no invincibility window.
NewPlayerNotInvincible(s, username, x, y, color, spriteRow) ==
    [id |-> s, x |-> x, y |-> y, username |-> username, color |-> color,
     direction |-> "down", spriteRow |-> spriteRow, isMoving |-> FALSE,
     invincibleUntil |-> 0, score |-> 0, trail |-> <<>>]

NewPlayer(s, username, x, y, color, spriteRow) ==
    [id |-> s,
     x |-> x,
     y |-> y,
     username |-> username,
     color |-> color,
     direction |-> "down",
     spriteRow |-> spriteRow,
     isMoving |-> FALSE,
     invincibleUntil |-> now + JoinInvincibleMs,
     score |-> 0,
     trail |-> <<>>]

\* Mutant: the roster is not filtered, the joiner is in it.
ExistingPlayersAll(ps, s) == {ps[p] : p \in DOMAIN ps}

\* Array.from(this.players.values()).filter(p => p.id !== socket.id); the
\* array is modelled by the set of its elements.
ExistingPlayers(ps, s) == {ps[p] : p \in {q \in DOMAIN ps : ps[q].id # s}}

\* Mutant: a join is announced with one event to everybody.
JoinEmitsOnce(s, player, ps) == << Emit("playerJoined", ToAll, player) >>

JoinEmits(s, player, ps) ==
    << Emit("init", ToSocket(s), player),
       Emit("playerJoined", ToBroadcast(s), player),
       Emit("existingPlayers", ToSocket(s), ExistingPlayers(ps, s)) >>

\* socket.on("join", username => ...)
JoinHandler(s, username, x, y, color, spriteRow) ==
    LET player == NewPlayer(s, username, x, y, color, spriteRow)
        ps == MapSet(players, s, player)
    IN  /\ players' = ps
        /\ Record([op |-> "join", sid |-> s,
                   data |-> [present |-> TRUE, username |-> username]],
                  JoinEmits(s, player, ps), FALSE)
        /\ appended' = [appended EXCEPT ![s] = <<>>]
        /\ joins' = joins + 1
        /\ registered' = registered + (IF Has(players, s) THEN 0 ELSE 1)
        /\ UNCHANGED <<connected, closed, now, disconnects, removed, moves, kills>>

\* --------------------------------------------------------------------- move

\* Mutant: the oldest 40 segments are kept (slice(0, 40)).
TrailPushKeepsOldest(trail, seg) ==
    LET pushed == Append(trail, seg)
    IN  IF Len(pushed) > TrailCap THEN SubSeq(pushed, 1, TrailCap) ELSE pushed

\* Mutant: the segments already laid take the new segment's isInvincible.
TrailPushRetags(trail, seg) ==
    LET pushed == Append([i \in 1..Len(trail) |->
                            [trail[i] EXCEPT !.isInvincible = seg.isInvincible]],
                         seg)
    IN  IF Len(pushed) > TrailCap THEN LastN(pushed, TrailCap) ELSE pushed

\* player.trail.push(seg); if (player.trail.length > 40)
\*   player.trail = player.trail.slice(-40)
TrailPush(trail, seg) ==
    LET pushed == Append(trail, seg)
    IN  IF Len(pushed) > TrailCap THEN LastN(pushed, TrailCap) ELSE pushed

\* The segment laid by a move: the position before the move is applied.
NewSegment(player) ==
    [x |-> player.x,
     y |-> player.y,
     timestamp |-> now,
     isInvincible |-> player.invincibleUntil > now]

\* Mutant: the reported position is stored before the segment is laid.
MovedPlayerPositionFirst(player, data) ==
    LET moved == [player EXCEPT
                    !.x = data.x,
                    !.y = data.y,
                    !.direction = IF data.direction # "" THEN data.direction ELSE @,
                    !.isMoving = IF data.isMoving # "undefined"
                                 THEN IsTrue(data.isMoving) ELSE @,
                    !.invincibleUntil = IF data.invincibleUntil # 0
                                        THEN data.invincibleUntil ELSE @]
    IN  [moved EXCEPT
            !.trail = IF Truthy(data.isMoving)
                      THEN TrailPush(@, [x |-> moved.x, y |-> moved.y,
                                         timestamp |-> now,
                                         isInvincible |-> moved.invincibleUntil > now])
                      ELSE @]

\* if (data.isMoving) push; then x, y and the optional fields are taken over
MovedPlayer(player, data) ==
    LET trail1 == IF Truthy(data.isMoving)
                  THEN TrailPush(player.trail, NewSegment(player))
                  ELSE player.trail
    IN  [player EXCEPT
            !.trail = trail1,
            !.x = data.x,
            !.y = data.y,
            !.direction = IF data.direction # "" THEN data.direction ELSE @,
            !.isMoving = IF data.isMoving # "undefined"
                         THEN IsTrue(data.isMoving) ELSE @,
            !.invincibleUntil = IF data.invincibleUntil # 0
                                THEN data.invincibleUntil ELSE @]

\* Mutant: the spread comes last, so the client's trail field wins.
PlayerMovedPayloadClientTrail(s, data, player) ==
    [id |-> IF data.id # "" THEN data.id ELSE s,
     x |-> data.x, y |-> data.y, direction |-> data.direction,
     isMoving |-> data.isMoving, invincibleUntil |-> data.invincibleUntil,
     trail |-> data.trail]

\* { id: socket.id, ...data, trail: player.trail }: a field of data replaces
\* the id written before the spread, the trail written after it stands.
PlayerMovedPayload(s, data, player) ==
    [id |-> IF data.id # "" THEN data.id ELSE s,
     x |-> data.x,
     y |-> data.y,
     direction |-> data.direction,
     isMoving |-> data.isMoving,
     invincibleUntil |-> data.invincibleUntil,
     trail |-> player.trail]

\* Mutant: the move is relayed without looking the sender up.
MoveHandlerRelays(s, data) ==
    /\ moves' = moves + 1
    /\ UNCHANGED <<connected, closed, now, joins, disconnects, registered,
                   removed, kills, players, appended>>
    /\ Record([op |-> "move", sid |-> s, data |-> data],
              << Emit("playerMoved", ToBroadcast(s), data) >>, FALSE)

\* socket.on("move", data => ...)
MoveHandler(s, data) ==
    LET e == [op |-> "move", sid |-> s, data |-> data]
    IN
    /\ moves' = moves + 1
    /\ UNCHANGED <<connected, closed, now, joins, disconnects, registered,
                   removed, kills>>
    /\ IF ~Has(players, s)
       THEN \* if (player) { ... }: nothing happens
            /\ Record(e, <<>>, FALSE)
            /\ UNCHANGED <<players, appended>>
       ELSE IF ~data.present
       THEN \* data.isMoving of undefined: TypeError, nothing was changed yet
            /\ Record(e, <<>>, TRUE)
            /\ UNCHANGED <<players, appended>>
       ELSE LET player == MovedPlayer(players[s], data)
            IN  /\ players' = MapSet(players, s, player)
                /\ Record(e, << Emit("playerMoved", ToBroadcast(s),
                                     PlayerMovedPayload(s, data, player)) >>,
                          FALSE)
                /\ appended' =
                     IF Truthy(data.isMoving)
                     THEN [appended EXCEPT
                             ![s] = Append(@, NewSegment(players[s]))]
                     ELSE appended

\* --------------------------------------------------------------- killPlayer

\* const deathType = data.collisionType || "player"
DeathType(data) == IF data.collisionType # "" THEN data.collisionType ELSE "player"

\* Mutant: the trail survives the respawn.
RespawnedKeepsTrail(player) ==
    [player EXCEPT
        !.x = CenterX,
        !.y = CenterY,
        !.direction = "down",
        !.isMoving = FALSE,
        !.invincibleUntil = now + RespawnInvincibleMs]

\* player.x = centerX; ... player.trail = []
Respawned(player) ==
    [player EXCEPT
        !.x = CenterX,
        !.y = CenterY,
        !.direction = "down",
        !.isMoving = FALSE,
        !.invincibleUntil = now + RespawnInvincibleMs,
        !.trail = <<>>]

\* Mutant: the victim's name is taken from the claim.
PlayerDiedPayloadClaimedName(s, player, data) ==
    [id |-> s, username |-> data.killedUsername, deathType |-> DeathType(data)]

PlayerDiedPayload(s, player, data) ==
    [id |-> s, username |-> player.username, deathType |-> DeathType(data)]

SelfRespawnPayload ==
    [x |-> CenterX, y |-> CenterY, invincibleUntil |-> now + RespawnInvincibleMs]

ServerRespawnPayload(s) ==
    [id |-> s, x |-> CenterX, y |-> CenterY,
     invincibleUntil |-> now + RespawnInvincibleMs]

\* Mutant: selfRespawn is sent with io.emit.
RespawnEmitsSelfToAll(s, player, data) ==
    << Emit("playerDied", ToAll, PlayerDiedPayload(s, player, data)),
       Emit("selfRespawn", ToAll, SelfRespawnPayload),
       Emit("serverRespawn", ToAll, ServerRespawnPayload(s)) >>

\* Mutant: the victim is told of its respawn before its death is announced.
RespawnEmitsRespawnFirst(s, player, data) ==
    << Emit("selfRespawn", ToSocket(s), SelfRespawnPayload),
       Emit("playerDied", ToAll, PlayerDiedPayload(s, player, data)),
       Emit("serverRespawn", ToAll, ServerRespawnPayload(s)) >>

\* The emits of the death and respawn part of the handler, in order.
RespawnEmits(s, player, data) ==
    << Emit("playerDied", ToAll, PlayerDiedPayload(s, player, data)),
       Emit("selfRespawn", ToSocket(s), SelfRespawnPayload),
       Emit("serverRespawn", ToAll, ServerRespawnPayload(s)) >>

\* const isSelfKill = data.isSelfKill === true || data.killedBy === socket.id
\*   || collisionType is "self-trail" or "self" || !data.killedBy || the flags
IsSelfKill(data, s) ==
    \/ IsTrue(data.isSelfKill)
    \/ data.killedBy = s
    \/ data.collisionType = "self-trail"
    \/ data.collisionType = "self"
    \/ data.killedBy = ""
    \/ IsTrue(data.killerIsDeadPlayer)
    \/ IsTrue(data.deadPlayerIsKiller)
    \/ IsTrue(data.killerIdMatchesVictimId)

\* const samePlayer = data.killedBy === socket.id
SamePlayer(data, s) == data.killedBy = s

\* Mutant: the last check compares the ids only.
AnyPossibleSelfKillIdsOnly(data, s, killer) == killer.id = s

\* const anyPossibleSelfKill = isSelfKill || killer.id === socket.id || ...
AnyPossibleSelfKill(data, s, killer) ==
    \/ IsSelfKill(data, s)
    \/ killer.id = s
    \/ IsTrue(data.isSelfKill)
    \/ IsTrue(data.killerIsDeadPlayer)
    \/ IsTrue(data.deadPlayerIsKiller)
    \/ IsTrue(data.killerIdMatchesVictimId)

ScorePayload(id, score, username, killedUsername, deathType, isSelfKill) ==
    [id |-> id, score |-> score, username |-> username,
     killedUsername |-> killedUsername, deathType |-> deathType,
     isSelfKill |-> isSelfKill]

\* selfKillData, built from the victim
SelfKillData(s, player, data) ==
    ScorePayload(s, player.score, player.username, player.username,
                 DeathType(data), TRUE)

\* Mutant: only the explicit isSelfKill flag is consulted.
ScoreBranchFlagOnly(ps, s, data) ==
    IF data.killedBy # "" /\ ~IsTrue(data.isSelfKill)
    THEN IF Has(ps, data.killedBy) THEN "legitimate" ELSE "killerNotFound"
    ELSE "missingKiller"

\* The branch the scoring part of the handler takes.
ScoreBranch(ps, s, data) ==
    IF SamePlayer(data, s) THEN "definitiveSelfKill"
    ELSE IF data.killedBy # ""
    THEN IF Has(ps, data.killedBy)
         THEN IF AnyPossibleSelfKill(data, s, ps[data.killedBy])
              THEN "safetyCaught"
              ELSE "legitimate"
         ELSE "killerNotFound"
    ELSE "missingKiller"

\* Mutant: the incremented score is not stored.
CreditForgotten(ps, id) == ps

\* killer.score += 1; this.players.set(data.killedBy, killer)
Credit(ps, id) == [ps EXCEPT ![id].score = @ + 1]

\* Mutant: a claim with no resolvable killer credits the victim.
ScoredPlayersFallbackToVictim(ps, s, data) ==
    IF ScoreBranch(ps, s, data) = "legitimate"
    THEN [ps EXCEPT ![data.killedBy].score = @ + 1]
    ELSE IF ScoreBranch(ps, s, data) \in {"killerNotFound", "missingKiller"}
    THEN [ps EXCEPT ![s].score = @ + 1]
    ELSE ps

\* The registry after the scoring part; ps is the registry after the respawn.
ScoredPlayers(ps, s, data) ==
    IF ScoreBranch(ps, s, data) = "legitimate"
    THEN Credit(ps, data.killedBy)
    ELSE ps

\* The scoreUpdated emits of the scoring part; ps is the registry after the
\* respawn and before the score is changed.
ScoreEmits(ps, s, data) ==
    LET branch == ScoreBranch(ps, s, data)
        victim == ps[s]
    IN  CASE branch = "definitiveSelfKill" ->
               << Emit("scoreUpdated", ToAll, SelfKillData(s, victim, data)) >>
          [] branch = "safetyCaught" ->
               << Emit("scoreUpdated", ToAll,
                       ScorePayload(data.killedBy, ps[data.killedBy].score,
                                    ps[data.killedBy].username, victim.username,
                                    DeathType(data), TRUE)) >>
          [] branch = "legitimate" ->
               << Emit("scoreUpdated", ToAll,
                       ScorePayload(data.killedBy, ps[data.killedBy].score + 1,
                                    ps[data.killedBy].username, victim.username,
                                    DeathType(data), FALSE)) >>
          [] branch = "killerNotFound" -> <<>>
          [] OTHER ->
               << Emit("scoreUpdated", ToAll, SelfKillData(s, victim, data)) >>

\* Mutant: the claimed killer is credited before the victim is looked up.
KillHandlerScoresFirst(s, data) ==
    /\ kills' = kills + 1
    /\ UNCHANGED <<connected, closed, now, joins, disconnects, registered,
                   removed, moves, appended>>
    /\ players' = IF data.present /\ Has(players, data.killedBy)
                  THEN Credit(players, data.killedBy)
                  ELSE players
    /\ Record([op |-> "killPlayer", sid |-> s, data |-> data,
               had |-> IF Has(players, s) THEN <<players[s]>> ELSE <<>>],
              <<>>, FALSE)

\* Mutant: the victim is the player the payload's id names.
KillHandlerVictimFromPayload(s, data) ==
    LET v == IF data.present /\ Has(players, data.id) THEN data.id ELSE s
        e == [op |-> "killPlayer", sid |-> s, data |-> data,
              had |-> IF Has(players, s) THEN <<players[s]>> ELSE <<>>]
    IN
    /\ kills' = kills + 1
    /\ UNCHANGED <<connected, closed, now, joins, disconnects, registered,
                   removed, moves>>
    /\ IF ~Has(players, v) \/ ~data.present
       THEN /\ Record(e, <<>>, FALSE)
            /\ UNCHANGED <<players, appended>>
       ELSE /\ players' = MapSet(players, v, Respawned(players[v]))
            /\ Record(e, RespawnEmits(v, players[v], data), FALSE)
            /\ appended' = [appended EXCEPT ![v] = <<>>]

\* socket.on("killPlayer", data => ...)
KillHandler(s, data) ==
    LET e == [op |-> "killPlayer", sid |-> s, data |-> data,
              had |-> IF Has(players, s) THEN <<players[s]>> ELSE <<>>]
    IN
    /\ kills' = kills + 1
    /\ UNCHANGED <<connected, closed, now, joins, disconnects, registered,
                   removed, moves>>
    /\ IF ~Has(players, s)
       THEN \* "Player not found for death!": return
            /\ Record(e, <<>>, FALSE)
            /\ UNCHANGED <<players, appended>>
       ELSE IF ~data.present
       THEN \* data.collisionType of undefined: TypeError before any emit
            /\ Record(e, <<>>, TRUE)
            /\ UNCHANGED <<players, appended>>
       ELSE LET ps == MapSet(players, s, Respawned(players[s]))
            IN  /\ players' = ScoredPlayers(ps, s, data)
                /\ Record(e, RespawnEmits(s, players[s], data)
                               \o ScoreEmits(ps, s, data), FALSE)
                /\ appended' = [appended EXCEPT ![s] = <<>>]

\* ------------------------------------- killPlayer, src/game/server variant

\* GameServer.ts resolves the score from the explicit flag alone:
\*   const isSelfKill = data.isSelfKill === true;
\*   if (data.killedBy && !isSelfKill) { killer found ? credit : log }
\*   else emit selfKillData
ScoreBranchTs(ps, s, data) ==
    IF data.killedBy # "" /\ ~IsTrue(data.isSelfKill)
    THEN IF Has(ps, data.killedBy) THEN "legitimate" ELSE "killerNotFound"
    ELSE "missingKiller"

ScoredPlayersTs(ps, s, data) ==
    IF ScoreBranchTs(ps, s, data) = "legitimate"
    THEN Credit(ps, data.killedBy)
    ELSE ps

ScoreEmitsTs(ps, s, data) ==
    LET branch == ScoreBranchTs(ps, s, data)
        victim == ps[s]
    IN  CASE branch = "legitimate" ->
               << Emit("scoreUpdated", ToAll,
                       ScorePayload(data.killedBy, ps[data.killedBy].score + 1,
                                    ps[data.killedBy].username, victim.username,
                                    DeathType(data), FALSE)) >>
          [] branch = "killerNotFound" -> <<>>
          [] OTHER ->
               << Emit("scoreUpdated", ToAll, SelfKillData(s, victim, data)) >>

\* socket.on("killPlayer", data => ...) of GameServer.ts
KillHandlerTs(s, data) ==
    LET e == [op |-> "killPlayer", sid |-> s, data |-> data,
              had |-> IF Has(players, s) THEN <<players[s]>> ELSE <<>>]
    IN
    /\ kills' = kills + 1
    /\ UNCHANGED <<connected, closed, now, joins, disconnects, registered,
                   removed, moves>>
    /\ IF ~Has(players, s)
       THEN /\ Record(e, <<>>, FALSE)
            /\ UNCHANGED <<players, appended>>
       ELSE IF ~data.present
       THEN \* data.collisionType of undefined: TypeError before any emit
            /\ Record(e, <<>>, TRUE)
            /\ UNCHANGED <<players, appended>>
       ELSE LET ps == MapSet(players, s, Respawned(players[s]))
            IN  /\ players' = ScoredPlayersTs(ps, s, data)
                /\ Record(e, RespawnEmits(s, players[s], data)
                               \o ScoreEmitsTs(ps, s, data), FALSE)
                /\ appended' = [appended EXCEPT ![s] = <<>>]

\* --------------------------------------------------------------- disconnect

\* socket.on("disconnect", ...): the socket has already left io.sockets when
\* the listener runs, so io.emit reaches the sockets that remain.

\* Mutant: playerLeft is broadcast without testing players.has(socket.id).
DisconnectHandlerUnguarded(s) ==
    /\ connected' = connected \ {s}
    /\ closed' = closed \cup {s}
    /\ disconnects' = disconnects + 1
    /\ UNCHANGED <<now, joins, registered, moves, kills>>
    /\ players' = MapDelete(players, s)
    /\ Record([op |-> "disconnect", sid |-> s, data |-> [present |-> FALSE]],
              << Emit("playerLeft", connected \ {s}, s) >>, FALSE)
    /\ removed' = removed + (IF Has(players, s) THEN 1 ELSE 0)
    /\ appended' = [appended EXCEPT ![s] = <<>>]

\* socket.on("disconnect", () => ...)
DisconnectHandler(s) ==
    LET e == [op |-> "disconnect", sid |-> s, data |-> [present |-> FALSE]]
    IN
    /\ connected' = connected \ {s}
    /\ closed' = closed \cup {s}
    /\ disconnects' = disconnects + 1
    /\ UNCHANGED <<now, joins, registered, moves, kills>>
    /\ IF Has(players, s)
       THEN /\ players' = MapDelete(players, s)
            /\ Record(e, << Emit("playerLeft", connected \ {s}, s) >>, FALSE)
            /\ removed' = removed + 1
            /\ appended' = [appended EXCEPT ![s] = <<>>]
       ELSE /\ Record(e, <<>>, FALSE)
            /\ UNCHANGED <<players, removed, appended>>

\* -------------------------------------------------------- requestPlayerData

\* The client emits requestPlayerData(playerId); setupSocketHandlers
\* registers listeners for join, move, killPlayer and disconnect only, so
\* socket.io finds no listener and the event is dropped.
RequestPlayerDataHandler(s, id) ==
    /\ Record([op |-> "requestPlayerData", sid |-> s,
               data |-> [present |-> TRUE, id |-> id]], <<>>, FALSE)
    /\ UNCHANGED <<connected, closed, players, now, appended, joins,
                   disconnects, registered, removed, moves, kills>>

\* ------------------------------------------------------------- environment

\* The name each session types into the join form.
UsernameOf(s) == IF s = "s1" THEN "ann" ELSE "bob"

\* A trail as a client holds it: the server never reads it.
ClientTrail == << [x |-> 7, y |-> 7, timestamp |-> 1, isInvincible |-> FALSE] >>

\* The inputs the sessions send in Spec.
MoveDatas ==
    {[present |-> TRUE, id |-> "", x |-> 100, y |-> 100, direction |-> "right",
      isMoving |-> "true", invincibleUntil |-> 500, trail |-> ClientTrail],
     [present |-> TRUE, id |-> "", x |-> 790, y |-> 100, direction |-> "",
      isMoving |-> "undefined", invincibleUntil |-> 0, trail |-> <<>>],
     [present |-> TRUE, id |-> "s2", x |-> 790, y |-> 100, direction |-> "",
      isMoving |-> "undefined", invincibleUntil |-> 0, trail |-> <<>>],
     [present |-> FALSE, id |-> "", x |-> 0, y |-> 0, direction |-> "",
      isMoving |-> "undefined", invincibleUntil |-> 0, trail |-> <<>>]}

Flag == {"true", "false"}

\* The fields of a killPlayer payload that the server never reads: the
\* ids and names the client writes beside killedBy, and three more
\* self-kill flags.  The ids name session s2 and the names no player.
UnreadFields(confirmed, ownerIsVictim, victimIsCollider) ==
    [id |-> "s2", victimId |-> "s2",
     killerUsername |-> "mallory", killedUsername |-> "mallory",
     selfKillConfirmed |-> confirmed,
     trailOwnerEqualsVictim |-> ownerIsVictim,
     victimEqualsCollider |-> victimIsCollider]

\* record r with the fields of record q added
WithFields(r, q) ==
    [f \in DOMAIN r \cup DOMAIN q |-> IF f \in DOMAIN r THEN r[f] ELSE q[f]]

\* Claims in which only a flag the server does not read says self-kill.
UnreadFlagDatas ==
    {WithFields([present |-> TRUE, killedBy |-> k, collisionType |-> "trail",
                 isSelfKill |-> "false", killerIsDeadPlayer |-> "false",
                 deadPlayerIsKiller |-> "false",
                 killerIdMatchesVictimId |-> "false"], u) :
        k \in Sessions,
        u \in {UnreadFields("true", "false", "false"),
               UnreadFields("false", "true", "false"),
               UnreadFields("false", "false", "true")}}

KillDatas ==
    {WithFields(r, UnreadFields("false", "false", "false")) :
        r \in [present : {TRUE},
               killedBy : Sessions \cup {""},
               collisionType : {"", "trail", "self", "self-trail"},
               isSelfKill : Tri,
               killerIsDeadPlayer : Flag,
               deadPlayerIsKiller : Flag,
               killerIdMatchesVictimId : Flag]}
    \cup UnreadFlagDatas
    \cup
    {WithFields([present |-> FALSE, killedBy |-> "", collisionType |-> "",
                 isSelfKill |-> "undefined", killerIsDeadPlayer |-> "false",
                 deadPlayerIsKiller |-> "false",
                 killerIdMatchesVictimId |-> "false"],
                UnreadFields("undefined", "undefined", "undefined"))}

Join(s) ==
    /\ ~observed
    /\ s \in connected
    /\ joins < MaxJoins
    /\ \E x \in {0}, y \in {SpawnRange - 1}, color \in {1}, spriteRow \in {0} :
          JoinHandler(s, UsernameOf(s), x, y, color, spriteRow)
    /\ UNCHANGED <<clientVars, netVars>>

Move(s) ==
    /\ ~observed
    /\ s \in connected
    /\ moves < MaxMoves
    /\ \E data \in MoveDatas : MoveHandler(s, data)
    /\ UNCHANGED <<clientVars, netVars>>

KillPlayer(s) ==
    /\ ~observed
    /\ s \in connected
    /\ kills < MaxKills
    /\ \E data \in KillDatas : KillHandler(s, data)
    /\ UNCHANGED <<clientVars, netVars>>

Disconnect(s) ==
    /\ ~observed
    /\ s \in connected
    /\ DisconnectHandler(s)
    /\ UNCHANGED <<clientVars, netVars>>

RequestPlayerData(s) ==
    /\ ~observed
    /\ s \in connected
    /\ \E id \in Sessions : RequestPlayerDataHandler(s, id)
    /\ UNCHANGED <<clientVars, netVars>>

Next ==
    \/ Tick
    \/ \E s \in Sessions : Connect(s)
    \/ \E s \in Sessions : Join(s)
    \/ \E s \in Sessions : Move(s)
    \/ \E s \in Sessions : KillPlayer(s)
    \/ \E s \in Sessions : Disconnect(s)
    \/ \E s \in Sessions : RequestPlayerData(s)

Spec == Init /\ [][Next]_vars

\* The same clients against the server of src/game/server/GameServer.ts,
\* whose join, move and disconnect handlers are the same code.
KillPlayerTs(s) ==
    /\ ~observed
    /\ s \in connected
    /\ kills < MaxKills
    /\ \E data \in KillDatas : KillHandlerTs(s, data)
    /\ UNCHANGED <<clientVars, netVars>>

NextTs ==
    \/ Tick
    \/ \E s \in Sessions : Connect(s)
    \/ \E s \in Sessions : Join(s)
    \/ \E s \in Sessions : Move(s)
    \/ \E s \in Sessions : KillPlayerTs(s)
    \/ \E s \in Sessions : Disconnect(s)
    \/ \E s \in Sessions : RequestPlayerData(s)

SpecTs == Init /\ [][NextTs]_vars

\* ------------------------------------------------- joins with every colour

\* SpecJoin: sessions connect, join and leave; a join draws any palette
\* colour and a spawn point at the ends of the random range.
JoinAny(s) ==
    /\ ~observed
    /\ s \in connected
    /\ joins < MaxJoins
    /\ \E x \in {0, SpawnRange - 1}, y \in {0, SpawnRange - 1},
          color \in getRandomColor :
          JoinHandler(s, UsernameOf(s), x, y, color, 0)
    /\ UNCHANGED <<clientVars, netVars>>

NextJoin ==
    \/ \E s \in Sessions : Connect(s)
    \/ \E s \in Sessions : JoinAny(s)
    \/ \E s \in Sessions : Disconnect(s)

SpecJoin == Init /\ [][NextJoin]_vars

\* ----------------------------------------------- one session laying a trail

\* SpecTrail: one session joins and keeps the "d" key down, so its client
\* sends one move per frame, moveSpeed to the right of the position it holds
\* (GameClient.processMovement), until the trail has overflowed its cap.
TrailSession == "s1"

ClientStep(player) ==
    [present |-> TRUE,
     id |-> "",
     x |-> Min(ArenaMaxX, player.x + ClientMoveSpeed),
     y |-> player.y,
     direction |-> "right",
     isMoving |-> "true",
     invincibleUntil |-> 0,
     trail |-> <<>>]

TrailConnect == Connect(TrailSession)

TrailJoin ==
    /\ ~observed
    /\ TrailSession \in connected
    /\ ~Has(players, TrailSession)
    /\ JoinHandler(TrailSession, UsernameOf(TrailSession), 0, SpawnRange - 1, 1, 0)
    /\ UNCHANGED <<clientVars, netVars>>

TrailMove ==
    /\ ~observed
    /\ Has(players, TrailSession)
    /\ moves < TrailCap + MaxOverflow
    /\ MoveHandler(TrailSession, ClientStep(players[TrailSession]))
    /\ UNCHANGED <<clientVars, netVars>>

TrailKill ==
    /\ ~observed
    /\ Has(players, TrailSession)
    /\ kills < MaxKills
    /\ KillHandler(TrailSession,
                   WithFields(
                     [present |-> TRUE, killedBy |-> TrailSession,
                      collisionType |-> "self-trail", isSelfKill |-> "true",
                      killerIsDeadPlayer |-> "true",
                      deadPlayerIsKiller |-> "true",
                      killerIdMatchesVictimId |-> "true"],
                     UnreadFields("true", "true", "false")))
    /\ UNCHANGED <<clientVars, netVars>>

NextTrail ==
    \/ Tick
    \/ TrailConnect
    \/ TrailJoin
    \/ TrailMove
    \/ TrailKill

SpecTrail == Init /\ [][NextTrail]_vars

\* ================================================================ the client

\* One GameClient (the client of src/unnamed/part_001 that tracks
\* invincibility), with the events a server sends it drawn from small sets.
\* Its own session is Me; the one other player it hears of is Other.  The
\* "move" events it emits are not recorded, its killPlayer events are.  As
\* for the server, the history variables describe one run of checkCollisions,
\* the last step of the run of the model.

CollisionRadius == 45
TrailCollisionRadius == 15
OwnTrailSkip == 5
DeadMs == 1000
ArenaMin == 20
ArenaMaxY == 580

MaxFrames == 2
MaxEvents == 3

Me == "s1"
Other == "s2"

Max(a, b) == IF a > b THEN a ELSE b

\* Map.has / Map.get / Map.set on a Map kept in insertion order
Knows(ps, id) == \E i \in 1..Len(ps) : ps[i].id = id
IndexOf(ps, id) == CHOOSE i \in 1..Len(ps) : ps[i].id = id
Get(ps, id) == ps[IndexOf(ps, id)]
Put(ps, p) ==
    IF Knows(ps, p.id) THEN [ps EXCEPT ![IndexOf(ps, p.id)] = p]
                       ELSE Append(ps, p)

\* Math.sqrt(dx * dx + dy * dy) < radius
Within(ax, ay, bx, by, radius) ==
    (ax - bx) * (ax - bx) + (ay - by) * (ay - by) < radius * radius

\* isInvincible(): Date.now() < this.invincibleUntil
isInvincible(t, until) == t < until

\* ------------------------------------------------------- events received

\* socket.on("init", player => ...): the player becomes currentPlayer and is
\* put in the map; this.invincibleUntil is not touched.
InitHandler(player) ==
    /\ currentPlayer' = player.id
    /\ clientPlayers' = Put(clientPlayers, player)
    /\ joinGrant' = player.invincibleUntil
    /\ UNCHANGED <<clientInvincibleUntil, isDead, reviveTimers, lastClaim,
                   checked, frames, respawnDue>>

\* socket.on("existingPlayers", players => ...)
RECURSIVE PutAll(_, _)
PutAll(ps, list) ==
    IF list = <<>> THEN ps ELSE PutAll(Put(ps, Head(list)), Tail(list))

ExistingPlayersHandler(list) ==
    /\ clientPlayers' = PutAll(clientPlayers, list)
    /\ UNCHANGED <<currentPlayer, clientInvincibleUntil, isDead, reviveTimers,
                   lastClaim, checked, joinGrant, frames, respawnDue>>

\* socket.on("playerJoined", player => ...)
PlayerJoinedHandler(player) ==
    /\ clientPlayers' = Put(clientPlayers, player)
    /\ UNCHANGED <<currentPlayer, clientInvincibleUntil, isDead, reviveTimers,
                   lastClaim, checked, joinGrant, frames, respawnDue>>

\* The player of a playerMoved event after the handler has copied the
\* fields that are present; the server always sends invincibleUntil and a
\* trail array (an empty array is truthy).
PlayerMovedApplied(player, data) ==
    [player EXCEPT
        !.x = data.x,
        !.y = data.y,
        !.direction = IF data.direction # "" THEN data.direction ELSE @,
        !.isMoving = IF data.isMoving # "undefined" THEN IsTrue(data.isMoving)
                                                    ELSE @,
        !.invincibleUntil = data.invincibleUntil,
        !.trail = data.trail]

\* socket.on("playerMoved", data => ...): an unknown id is ignored.
PlayerMovedHandler(data) ==
    /\ clientPlayers' =
          IF Knows(clientPlayers, data.id)
          THEN Put(clientPlayers,
                   PlayerMovedApplied(Get(clientPlayers, data.id), data))
          ELSE clientPlayers
    /\ UNCHANGED <<currentPlayer, clientInvincibleUntil, isDead, reviveTimers,
                   lastClaim, checked, joinGrant, frames, respawnDue>>

\* socket.on("selfRespawn", data => ...)
SelfRespawnHandler(data) ==
    /\ IF currentPlayer = ""
       THEN UNCHANGED <<clientPlayers, isDead, clientInvincibleUntil>>
       ELSE /\ isDead' = FALSE
            /\ clientPlayers' =
                  Put(clientPlayers,
                      [Get(clientPlayers, currentPlayer) EXCEPT
                          !.x = data.x,
                          !.y = data.y,
                          !.direction = "down",
                          !.isMoving = FALSE,
                          !.invincibleUntil = data.invincibleUntil])
            /\ clientInvincibleUntil' = data.invincibleUntil
    /\ respawnDue' = FALSE
    /\ UNCHANGED <<currentPlayer, reviveTimers, lastClaim, checked, joinGrant,
                   frames>>

\* setTimeout(() => { this.isDead = false }, 1000), set with every claim
ReviveTimeout(due) ==
    /\ isDead' = FALSE
    /\ reviveTimers' = reviveTimers \ {due}
    /\ UNCHANGED <<currentPlayer, clientPlayers, clientInvincibleUntil,
                   lastClaim, checked, joinGrant, frames, respawnDue>>

\* ------------------------------------------------------------- collisions

\* The killPlayer event of a collision, with what the check looked at: the
\* time, the killer as the client saw it, and the trail segment that was hit.
Claim(me, killer, collisionType, segment, t) ==
    [data |-> [id |-> me.id,
               killedBy |-> killer.id,
               killerUsername |-> killer.username,
               killedUsername |-> me.username,
               forced |-> TRUE,
               collisionType |-> collisionType,
               isSelfKill |-> killer.id = me.id,
               selfKillConfirmed |-> killer.id = me.id],
     at |-> t,
     killer |-> killer,
     segment |-> segment]

First(S) == CHOOSE i \in S : \A j \in S : i <= j

\* Mutant: invincible players are not skipped.
PlayerHitsAnyone(me, ps, t) ==
    {i \in 1..Len(ps) :
        /\ ps[i].id # me.id
        /\ Within(ps[i].x, ps[i].y, me.x, me.y, CollisionRadius)}

\* The players the loop of checkPlayerCollisions finds in range: not the
\* client's own, not an invincible one.
PlayerHits(me, ps, t) ==
    {i \in 1..Len(ps) :
        /\ ps[i].id # me.id
        /\ ~(t < ps[i].invincibleUntil)
        /\ Within(ps[i].x, ps[i].y, me.x, me.y, CollisionRadius)}

\* checkPlayerCollisions(): the claim it emits, <<>> when it returns false
checkPlayerCollisions(me, ps, t) ==
    LET hits == PlayerHits(me, ps, t)
    IN  IF me.isMoving /\ hits # {}
        THEN << Claim(me, ps[First(hits)], "player", <<>>, t) >>
        ELSE <<>>

\* Mutant: the trail of an invincible owner is not skipped.
SegmentHitsAnyOwner(me, p, t) ==
    {k \in 1..Len(p.trail) :
        /\ k <= Len(p.trail) - (IF p.id = me.id THEN OwnTrailSkip ELSE 0)
        /\ Within(p.trail[k].x, p.trail[k].y, me.x, me.y,
                  TrailCollisionRadius)}

\* The segments of player p's trail the inner loop of checkTrailCollisions
\* finds in range; the last five of the client's own trail are not looked at.
SegmentHits(me, p, t) ==
    LET playerIsCurrentlyInvincible == t < p.invincibleUntil
    IN  {k \in 1..Len(p.trail) :
            /\ k <= Len(p.trail) - (IF p.id = me.id THEN OwnTrailSkip ELSE 0)
            /\ ~playerIsCurrentlyInvincible
            /\ ~(p.trail[k].isInvincible /\ playerIsCurrentlyInvincible)
            /\ Within(p.trail[k].x, p.trail[k].y, me.x, me.y,
                      TrailCollisionRadius)}

\* checkTrailCollisions(): the claim it emits, <<>> when it returns false
checkTrailCollisions(me, ps, t) ==
    LET owners == {i \in 1..Len(ps) : SegmentHits(me, ps[i], t) # {}}
    IN  IF me.isMoving /\ owners # {}
        THEN LET p == ps[First(owners)]
                 k == First(SegmentHits(me, p, t))
             IN  << Claim(me, p,
                          IF p.id = me.id THEN "self-trail" ELSE "trail",
                          << p.trail[k] >>, t) >>
        ELSE <<>>

\* A run of checkCollisions is either recorded, with the map it looked at,
\* whether an earlier claim was still unanswered and the claim it emitted,
\* and ends the run; or it is not and the run goes on.
RecordCheck(ps, claim) ==
    \/ /\ observed' = TRUE
       /\ checked' = [ran |-> TRUE, at |-> now, players |-> ps,
                      awaiting |-> respawnDue]
       /\ lastClaim' = claim
    \/ /\ observed' = FALSE
       /\ checked' = NoCheck
       /\ lastClaim' = <<>>

\* The claim checkCollisions() emits on the map ps, <<>> when it emits none:
\* no current player, a dead or invincible one, or nothing in range.
CollisionClaim(ps) ==
    LET me == Get(ps, currentPlayer)
        byPlayer == checkPlayerCollisions(me, ps, now)
    IN  IF \/ currentPlayer = ""
           \/ isDead
           \/ now < me.invincibleUntil
        THEN <<>>
        ELSE IF byPlayer # <<>> THEN byPlayer
                                ELSE checkTrailCollisions(me, ps, now)

\* checkCollisions() on the map ps the caller leaves behind
checkCollisions(ps) ==
    LET me == Get(ps, currentPlayer)
        hit == CollisionClaim(ps)
    IN  IF hit = <<>>
        THEN /\ clientPlayers' = ps
             /\ RecordCheck(ps, <<>>)
             /\ UNCHANGED <<isDead, respawnDue, reviveTimers>>
        ELSE /\ clientPlayers' = Put(ps, [me EXCEPT !.trail = <<>>])
             /\ isDead' = TRUE
             /\ RecordCheck(ps, hit)
             /\ respawnDue' = TRUE
             /\ reviveTimers' = reviveTimers \cup {now + DeadMs}

\* --------------------------------------------------------------- movement

\* movePlayer(x, y, direction, isMoving): the current player afterwards
movePlayer(player, x, y, direction, isMoving, t, until) ==
    [player EXCEPT
        !.trail = IF IsTrue(isMoving)
                  THEN LastN(Append(@, [x |-> player.x, y |-> player.y,
                                        timestamp |-> t,
                                        isInvincible |-> isInvincible(t, until)]),
                             TrailCap)
                  ELSE @,
        !.x = x,
        !.y = y,
        !.direction = IF direction # "" THEN direction ELSE @,
        !.isMoving = IF isMoving # "undefined" THEN IsTrue(isMoving) ELSE @,
        !.invincibleUntil = IF isInvincible(t, until) THEN until ELSE 0]

Keys == {"w", "a", "s", "d"}
KeyDx(key) == IF key = "a" THEN 0 - ClientMoveSpeed
              ELSE IF key = "d" THEN ClientMoveSpeed ELSE 0
KeyDy(key) == IF key = "w" THEN 0 - ClientMoveSpeed
              ELSE IF key = "s" THEN ClientMoveSpeed ELSE 0
KeyDirection(key) ==
    IF key = "w" THEN "up"
    ELSE IF key = "s" THEN "down"
    ELSE IF key = "a" THEN "left"
    ELSE IF key = "d" THEN "right" ELSE ""

\* processMovement() with one movement key down, or none (key = "")
\* The call of movePlayer a frame makes, as the current player it leaves:
\* a step with the key held, a stop with no key held and the player still
\* marked as moving, <<>> when the frame makes no call.
FrameMove(key) ==
    LET me == Get(clientPlayers, currentPlayer)
        newX == Max(ArenaMin, Min(ArenaMaxX, me.x + KeyDx(key)))
        newY == Max(ArenaMin, Min(ArenaMaxY, me.y + KeyDy(key)))
    IN  IF key \in Keys
        THEN IF newX # me.x \/ newY # me.y
             THEN << movePlayer(me, newX, newY, KeyDirection(key), "true",
                                now, clientInvincibleUntil) >>
             ELSE <<>>
        ELSE IF me.isMoving
             THEN << movePlayer(me, me.x, me.y, "", "false",
                                now, clientInvincibleUntil) >>
             ELSE <<>>

\* processMovement(): only a step is followed by checkCollisions().
processMovement(key) ==
    LET moved == FrameMove(key)
    IN  IF key \in Keys /\ moved # <<>>
        THEN checkCollisions(Put(clientPlayers, moved[1]))
        ELSE /\ clientPlayers' = IF moved # <<>>
                                 THEN Put(clientPlayers, moved[1])
                                 ELSE clientPlayers
             /\ UNCHANGED <<isDead, lastClaim, respawnDue, reviveTimers,
                            checked, observed>>

\* ------------------------------------------------------------ environment

serverVars == <<connected, closed, players, ev, out, threw, before,
                appended, joins, disconnects, registered, removed, moves,
                kills>>

\* Where the other player and its trail can be: next to the client's spawn
\* point, or far from it.
OtherXs == {110, 300}
SpawnPoint == [x |-> 100, y |-> 100]

OtherTrails ==
    {<<>>,
     << [x |-> 110, y |-> SpawnPoint.y, timestamp |-> StartTime,
         isInvincible |-> TRUE] >>,
     << [x |-> 110, y |-> SpawnPoint.y, timestamp |-> StartTime,
         isInvincible |-> FALSE] >>}

\* The windows the server can hold for a player: none (a move reported 0),
\* or the one granted at StartTime.
OtherWindows == {0, StartTime + JoinInvincibleMs}

OtherPlayers ==
    {[NewPlayer(Other, UsernameOf(Other), x, SpawnPoint.y, 2, 0) EXCEPT
         !.invincibleUntil = w, !.trail = tr] :
       x \in OtherXs, w \in OtherWindows, tr \in OtherTrails}

OtherMoves ==
    {[id |-> Other, x |-> x, y |-> SpawnPoint.y, direction |-> "right",
      isMoving |-> "true", invincibleUntil |-> w, trail |-> tr] :
       x \in OtherXs, w \in OtherWindows, tr \in OtherTrails}

\* The server answers the client's join: init, then existingPlayers.
ClientInit ==
    /\ ~observed
    /\ currentPlayer = ""
    /\ InitHandler(NewPlayer(Me, UsernameOf(Me), SpawnPoint.x, SpawnPoint.y, 1, 0))
    /\ UNCHANGED <<serverVars, netVars, now, observed>>

ClientExistingPlayers ==
    /\ ~observed
    /\ currentPlayer # ""
    /\ ~Knows(clientPlayers, Other)
    /\ \E list \in {<<>>} \cup {<<p>> : p \in OtherPlayers} :
          ExistingPlayersHandler(list)
    /\ UNCHANGED <<serverVars, netVars, now, observed>>

ClientPlayerJoined ==
    /\ ~observed
    /\ currentPlayer # ""
    /\ PlayerJoinedHandler(
          NewPlayer(Other, UsernameOf(Other), 110, SpawnPoint.y, 2, 0))
    /\ UNCHANGED <<serverVars, netVars, now, observed>>

ClientPlayerMoved ==
    /\ ~observed
    /\ \E data \in OtherMoves : PlayerMovedHandler(data)
    /\ UNCHANGED <<serverVars, netVars, now, observed>>

\* A frame of the movement loop; the first one follows a key press.
ClientProcessMovement ==
    /\ ~observed
    /\ currentPlayer # ""
    /\ frames < MaxFrames
    /\ \E key \in Keys \cup {""} :
          /\ key = "" => frames > 0
          /\ processMovement(key)
    /\ frames' = frames + 1
    /\ UNCHANGED <<currentPlayer, clientInvincibleUntil, joinGrant>>
    /\ UNCHANGED <<serverVars, netVars, now>>

\* The setInterval callbacks of startCollisionChecking, which the first key
\* press starts.
ClientCollisionInterval ==
    /\ ~observed
    /\ frames > 0
    /\ checkCollisions(clientPlayers)
    /\ UNCHANGED <<currentPlayer, clientInvincibleUntil, joinGrant, frames>>
    /\ UNCHANGED <<serverVars, netVars, now>>

\* The server's answer to a claim.
ClientSelfRespawn ==
    /\ ~observed
    /\ respawnDue
    /\ SelfRespawnHandler(SelfRespawnPayload)
    /\ UNCHANGED <<serverVars, netVars, now, observed>>

ClientReviveTimeout ==
    /\ ~observed
    /\ \E due \in reviveTimers : due <= now /\ ReviveTimeout(due)
    /\ UNCHANGED <<serverVars, netVars, now, observed>>

NextClient ==
    \/ Tick
    \/ ClientInit
    \/ ClientExistingPlayers
    \/ ClientPlayerJoined
    \/ ClientPlayerMoved
    \/ ClientProcessMovement
    \/ ClientCollisionInterval
    \/ ClientSelfRespawn
    \/ ClientReviveTimeout

SpecClient == Init /\ [][NextClient]_vars

\* =========================================================== client events
\* The listeners of the client that the frame-level specification above does
\* not need, as functions on a players Map, and the events the client emits
\* in the server's encoding.

SafetyMs == 5000

\* socket.on("scoreUpdated", data => ...): an unknown id is ignored.
ScoreUpdatedApplied(ps, data) ==
    IF Knows(ps, data.id)
    THEN Put(ps, [Get(ps, data.id) EXCEPT !.score = data.score])
    ELSE ps

\* Mutant: the listener ignores the event.
PlayerLeftKept(ps, id) == ps

\* socket.on("playerLeft", playerId => this.players.delete(playerId))
PlayerLeftApplied(ps, id) == SelectSeq(ps, LAMBDA p : p.id # id)

\* socket.on("serverRespawn", data => ...) on the Map: an unknown id changes
\* nothing (the client asks for the player's data, which nobody answers).
ServerRespawnApplied(ps, data) ==
    IF Knows(ps, data.id)
    THEN Put(ps, [Get(ps, data.id) EXCEPT
                     !.x = data.x,
                     !.y = data.y,
                     !.direction = "down",
                     !.isMoving = FALSE,
                     !.invincibleUntil = data.invincibleUntil])
    ELSE ps

\* socket.on("playerDied", data => ...) on the Map: the trail of the player,
\* the client's own or a known other one, is cleared.
PlayerDiedApplied(ps, data) ==
    IF Knows(ps, data.id)
    THEN Put(ps, [Get(ps, data.id) EXCEPT !.trail = <<>>])
    ELSE ps

ScoreUpdatedHandler(data) ==
    /\ clientPlayers' = ScoreUpdatedApplied(clientPlayers, data)
    /\ UNCHANGED <<currentPlayer, clientInvincibleUntil, isDead, reviveTimers,
                   lastClaim, checked, joinGrant, frames, respawnDue>>

PlayerLeftHandler(id) ==
    /\ clientPlayers' = PlayerLeftApplied(clientPlayers, id)
    /\ UNCHANGED <<currentPlayer, clientInvincibleUntil, isDead, reviveTimers,
                   lastClaim, checked, joinGrant, frames, respawnDue>>

\* For the client's own id the death state is reset and this.invincibleUntil
\* follows the event.
ServerRespawnHandler(data) ==
    LET own == Knows(clientPlayers, data.id) /\ data.id = currentPlayer
    IN  /\ clientPlayers' = ServerRespawnApplied(clientPlayers, data)
        /\ isDead' = IF own THEN FALSE ELSE isDead
        /\ clientInvincibleUntil' = IF own THEN data.invincibleUntil
                                           ELSE clientInvincibleUntil
        /\ UNCHANGED <<currentPlayer, reviveTimers, lastClaim, checked,
                       joinGrant, frames, respawnDue>>

\* For the client's own id: isDead = true, and a timer that resets it after
\* five seconds if it is still set.
PlayerDiedHandler(data) ==
    LET own == currentPlayer # "" /\ data.id = currentPlayer
    IN  /\ clientPlayers' = PlayerDiedApplied(clientPlayers, data)
        /\ isDead' = IF own THEN TRUE ELSE isDead
        /\ reviveTimers' = IF own THEN reviveTimers \cup {now + SafetyMs}
                                  ELSE reviveTimers
        /\ UNCHANGED <<currentPlayer, clientInvincibleUntil, lastClaim,
                       checked, joinGrant, frames, respawnDue>>

\* The array of an existingPlayers event; with two sessions the filtered
\* roster holds one player at most.
RECURSIVE AsList(_)
AsList(S) ==
    IF S = {} THEN <<>>
    ELSE LET p == CHOOSE q \in S : TRUE IN <<p>> \o AsList(S \ {p})

\* The listener of the event m of the server.
ClientReceive(m) ==
    CASE m.event = "init" -> InitHandler(m.payload)
      [] m.event = "existingPlayers" ->
             ExistingPlayersHandler(AsList(m.payload))
      [] m.event = "playerJoined" -> PlayerJoinedHandler(m.payload)
      [] m.event = "playerMoved" -> PlayerMovedHandler(m.payload)
      [] m.event = "playerDied" -> PlayerDiedHandler(m.payload)
      [] m.event = "selfRespawn" -> SelfRespawnHandler(m.payload)
      [] m.event = "serverRespawn" -> ServerRespawnHandler(m.payload)
      [] m.event = "scoreUpdated" -> ScoreUpdatedHandler(m.payload)
      [] m.event = "playerLeft" -> PlayerLeftHandler(m.payload)

Bool(b) == IF b THEN "true" ELSE "false"

\* this.socket.emit("move", { x, y, direction, isMoving, invincibleUntil,
\* trail }) at the end of movePlayer, for the current player it leaves.
MoveEvent(player) ==
    [event |-> "move",
     data |-> [present |-> TRUE, id |-> "", x |-> player.x, y |-> player.y,
               direction |-> player.direction,
               isMoving |-> Bool(player.isMoving),
               invincibleUntil |-> player.invincibleUntil,
               trail |-> player.trail]]

\* this.socket.emit("killPlayer", { ... }) of a collision: every self-kill
\* flag repeats isCollisionWithSelf; killerIdMatchesVictimId and the
\* trail-owner fields are written for a trail collision only.
KillEvent(claim) ==
    LET d == claim.data
        trail == claim.segment # <<>>
    IN  [event |-> "killPlayer",
         data |-> [present |-> TRUE,
                   id |-> d.id,
                   killedBy |-> d.killedBy,
                   killerUsername |-> d.killerUsername,
                   killedUsername |-> d.killedUsername,
                   collisionType |-> d.collisionType,
                   isSelfKill |-> Bool(d.isSelfKill),
                   killerIsDeadPlayer |-> Bool(d.isSelfKill),
                   deadPlayerIsKiller |-> Bool(d.isSelfKill),
                   killerIdMatchesVictimId |->
                       IF trail THEN Bool(d.isSelfKill) ELSE "undefined",
                   selfKillConfirmed |-> Bool(d.selfKillConfirmed),
                   victimId |-> IF trail THEN d.id ELSE "",
                   trailOwnerEqualsVictim |->
                       IF trail THEN Bool(claim.killer.id = d.id)
                                ELSE "undefined",
                   victimEqualsCollider |-> "undefined"]]

\* The events a frame emits: the move of movePlayer, then the claim of the
\* collision check that follows a step.
FrameClaim(key) ==
    IF key \in Keys /\ FrameMove(key) # <<>>
    THEN CollisionClaim(Put(clientPlayers, FrameMove(key)[1]))
    ELSE <<>>

FrameEvents(key) ==
    (IF FrameMove(key) # <<>> THEN << MoveEvent(FrameMove(key)[1]) >> ELSE <<>>)
    \o (IF FrameClaim(key) # <<>> THEN << KillEvent(FrameClaim(key)[1]) >>
                                  ELSE <<>>)

\* ============================================== server and client together
\* The client of session Me with the server, joined by two channels that
\* keep the order of what is put in them: toServer holds the client's move
\* and killPlayer events, inbox the events the server emitted to a session.
\* Every step is a recorded one here (observed is set with the first
\* connection), so that out' holds what a handler emitted.  The client of the
\* other session is not modelled and what the server sends it is dropped.

\* The events of the emits o that go to session s, in order.
Addressed(o, s) == SelectSeq(o, LAMBDA m : s \in m.to)

\* The inboxes after the emits o, for the sessions in S.
Sent(box, o, S) ==
    [s \in Sessions |-> IF s \in S THEN box[s] \o Addressed(o, s) ELSE box[s]]

RaceJoinX(s) == IF s = Me THEN SpawnPoint.x ELSE 110

RaceConnect(s) ==
    /\ s \notin connected
    /\ s \notin closed
    /\ connected' = connected \cup {s}
    /\ observed' = TRUE
    /\ UNCHANGED <<closed, players, now, appended, ev, out, threw, before,
                   joins, disconnects, registered, removed, moves, kills>>
    /\ UNCHANGED <<clientVars, netVars>>

RaceTick ==
    /\ observed
    /\ \E t \in Times : t > now /\ now' = t
    /\ UNCHANGED <<connected, closed, players, appended, hist,
                   joins, disconnects, registered, removed, moves, kills>>
    /\ UNCHANGED <<clientVars, netVars>>

\* A session sends join once, from the form of its page.
RaceJoin(s) ==
    /\ s \in connected
    /\ ~Has(players, s)
    /\ JoinHandler(s, UsernameOf(s), RaceJoinX(s), SpawnPoint.y, 1, 0)
    /\ observed'
    /\ inbox' = Sent(inbox, out', {Me})
    /\ UNCHANGED <<toServer, rosters, currentOf, race>>
    /\ UNCHANGED clientVars

\* The server handles the oldest event of the client.
RaceServe ==
    /\ toServer # <<>>
    /\ LET m == Head(toServer)
       IN  IF m.event = "move" THEN MoveHandler(Me, m.data)
                               ELSE KillHandler(Me, m.data)
    /\ observed'
    /\ toServer' = Tail(toServer)
    /\ inbox' = Sent(inbox, out', {Me})
    /\ UNCHANGED <<rosters, currentOf, race>>
    /\ UNCHANGED clientVars

\* The client handles the oldest event of the server.
RaceReceive ==
    /\ inbox[Me] # <<>>
    /\ ClientReceive(Head(inbox[Me]))
    /\ inbox' = [inbox EXCEPT ![Me] = Tail(@)]
    /\ UNCHANGED <<toServer, rosters, currentOf, race>>
    /\ UNCHANGED <<serverVars, now, observed>>

\* What the client has sent around a respawn: a move while a claim of its
\* own was unanswered, and anything after the answer to it.
RaceNoted(events) ==
    [inFlight |-> race.inFlight
                    \/ (respawnDue /\ \E i \in 1..Len(events) :
                                          events[i].event = "move"),
     later |-> race.later \/ (race.inFlight /\ ~respawnDue /\ events # <<>>)]

\* A frame of the movement loop, with a key held or with none.
RaceFrame ==
    /\ currentPlayer # ""
    /\ frames < MaxFrames
    /\ \E key \in Keys \cup {""} :
          /\ key = "" => frames > 0
          /\ processMovement(key)
          /\ toServer' = toServer \o FrameEvents(key)
          /\ race' = RaceNoted(FrameEvents(key))
    /\ observed'
    /\ frames' = frames + 1
    /\ UNCHANGED <<currentPlayer, clientInvincibleUntil, joinGrant>>
    /\ UNCHANGED <<inbox, rosters, currentOf>>
    /\ UNCHANGED <<serverVars, now>>

\* A callback of the collision interval the first key press started.
RaceCollisionInterval ==
    /\ frames > 0
    /\ checkCollisions(clientPlayers)
    /\ observed'
    /\ toServer' = toServer
                     \o (IF CollisionClaim(clientPlayers) # <<>>
                         THEN << KillEvent(CollisionClaim(clientPlayers)[1]) >>
                         ELSE <<>>)
    /\ race' = RaceNoted(IF CollisionClaim(clientPlayers) # <<>>
                         THEN << KillEvent(CollisionClaim(clientPlayers)[1]) >>
                         ELSE <<>>)
    /\ UNCHANGED <<currentPlayer, clientInvincibleUntil, joinGrant, frames>>
    /\ UNCHANGED <<inbox, rosters, currentOf>>
    /\ UNCHANGED <<serverVars, now>>

NextRace ==
    \/ \E s \in Sessions : RaceConnect(s)
    \/ RaceTick
    \/ \E s \in Sessions : RaceJoin(s)
    \/ RaceServe
    \/ RaceReceive
    \/ RaceFrame
    \/ RaceCollisionInterval

SpecRace == Init /\ [][NextRace]_vars

\* ====================================================== rosters of clients
\* The server with the clients of both sessions, each one reduced to its
\* players Map (rosters), its currentPlayer (currentOf) and the events the
\* server has emitted to its socket and it has not handled yet (inbox).  The
\* sessions send the server any join, move, killPlayer and disconnect.

\* The players Map of a client with current player cur after the event m.
RosterReceive(ps, cur, m) ==
    CASE m.event = "init" -> Put(ps, m.payload)
      [] m.event = "existingPlayers" -> PutAll(ps, AsList(m.payload))
      [] m.event = "playerJoined" -> Put(ps, m.payload)
      [] m.event = "playerMoved" ->
             IF Knows(ps, m.payload.id)
             THEN Put(ps, PlayerMovedApplied(Get(ps, m.payload.id), m.payload))
             ELSE ps
      [] m.event = "playerDied" -> PlayerDiedApplied(ps, m.payload)
      [] m.event = "selfRespawn" ->
             IF cur = "" THEN ps
             ELSE ServerRespawnApplied(ps, [id |-> cur,
                                            x |-> m.payload.x,
                                            y |-> m.payload.y,
                                            invincibleUntil |->
                                                m.payload.invincibleUntil])
      [] m.event = "serverRespawn" -> ServerRespawnApplied(ps, m.payload)
      [] m.event = "scoreUpdated" -> ScoreUpdatedApplied(ps, m.payload)
      [] m.event = "playerLeft" -> PlayerLeftApplied(ps, m.payload)

\* The claims the sessions send here: any killer, with and without the flag.
RosterKillDatas ==
    {d \in KillDatas :
        /\ d.present => d.collisionType = "trail"
        /\ d.killerIsDeadPlayer = "false"
        /\ d.deadPlayerIsKiller = "false"
        /\ d.killerIdMatchesVictimId = "false"
        /\ d.selfKillConfirmed \in {"false", "undefined"}
        /\ d.trailOwnerEqualsVictim \in {"false", "undefined"}
        /\ d.victimEqualsCollider \in {"false", "undefined"}}

\* The joins, moves and claims the server has handled.
RosterEvents == joins + moves + kills

RosterConnect(s) ==
    /\ s \notin connected
    /\ s \notin closed
    /\ connected' = connected \cup {s}
    /\ observed' = TRUE
    /\ UNCHANGED <<closed, players, now, appended, ev, out, threw, before,
                   joins, disconnects, registered, removed, moves, kills>>
    /\ UNCHANGED <<clientVars, netVars>>

RosterJoin(s) ==
    /\ s \in connected
    /\ RosterEvents < MaxEvents
    /\ JoinHandler(s, UsernameOf(s), 0, SpawnRange - 1, 1, 0)
    /\ observed'
    /\ inbox' = Sent(inbox, out', Sessions)
    /\ UNCHANGED <<toServer, rosters, currentOf, race>>
    /\ UNCHANGED clientVars

RosterMove(s) ==
    /\ s \in connected
    /\ RosterEvents < MaxEvents
    /\ \E data \in MoveDatas : MoveHandler(s, data)
    /\ observed'
    /\ inbox' = Sent(inbox, out', Sessions)
    /\ UNCHANGED <<toServer, rosters, currentOf, race>>
    /\ UNCHANGED clientVars

RosterKill(s) ==
    /\ s \in connected
    /\ RosterEvents < MaxEvents
    /\ \E data \in RosterKillDatas : KillHandler(s, data)
    /\ observed'
    /\ inbox' = Sent(inbox, out', Sessions)
    /\ UNCHANGED <<toServer, rosters, currentOf, race>>
    /\ UNCHANGED clientVars

\* The socket of s is closed: what was on its way to it is lost.
RosterDisconnect(s) ==
    /\ s \in connected
    /\ DisconnectHandler(s)
    /\ observed'
    /\ inbox' = [Sent(inbox, out', Sessions) EXCEPT ![s] = <<>>]
    /\ UNCHANGED <<toServer, rosters, currentOf, race>>
    /\ UNCHANGED clientVars

\* The client of s handles the oldest event of its inbox.
RosterDeliver(s) ==
    /\ inbox[s] # <<>>
    /\ LET m == Head(inbox[s])
       IN  /\ rosters' = [rosters EXCEPT
                            ![s] = RosterReceive(@, currentOf[s], m)]
           /\ currentOf' = [currentOf EXCEPT
                              ![s] = IF m.event = "init" THEN m.payload.id
                                                         ELSE @]
    /\ inbox' = [inbox EXCEPT ![s] = Tail(@)]
    /\ UNCHANGED <<toServer, race>>
    /\ UNCHANGED <<serverVars, now, observed>>
    /\ UNCHANGED clientVars

NextRoster ==
    \/ \E s \in Sessions : RosterConnect(s)
    \/ \E s \in Sessions : RosterJoin(s)
    \/ \E s \in Sessions : RosterMove(s)
    \/ \E s \in Sessions : RosterKill(s)
    \/ \E s \in Sessions : RosterDisconnect(s)
    \/ \E s \in Sessions : RosterDeliver(s)

SpecRoster == Init /\ [][NextRoster]_vars

\* =================================================================== claims

HasEmit(o, name) == \E i \in 1..Len(o) : o[i].event = name
EmitsOf(o, name) == {i \in 1..Len(o) : o[i].event = name}

\* The recorded step was a killPlayer event.
KillObserved == observed /\ ev.op = "killPlayer"

\* No score of the registry differs between ps and qs.
SameScores(ps, qs) ==
    /\ DOMAIN ps = DOMAIN qs
    /\ \A p \in DOMAIN ps : ps[p].score = qs[p].score

\* No self-kill signal of the claim is set.
NoSelfKillFlag(data) ==
    /\ data.isSelfKill # "true"
    /\ data.collisionType \notin {"self", "self-trail"}
    /\ data.killerIsDeadPlayer # "true"
    /\ data.deadPlayerIsKiller # "true"
    /\ data.killerIdMatchesVictimId # "true"

C3_LegitimateKillCredited ==
    [][ (observed' /\ ev'.op = "killPlayer" /\ Has(players, ev'.sid)
            /\ ev'.data.present
            /\ ev'.data.killedBy # ev'.sid
            /\ Has(players, ev'.data.killedBy)
            /\ NoSelfKillFlag(ev'.data))
        => LET B == ev'.data.killedBy
           IN  /\ Has(players', B)
               /\ players'[B].score = players[B].score + 1
               /\ Cardinality(EmitsOf(out', "scoreUpdated")) = 1
               /\ \A i \in EmitsOf(out', "scoreUpdated") :
                     /\ out'[i].to = connected'
                     /\ out'[i].payload.id = B
                     /\ out'[i].payload.score = players[B].score + 1
                     /\ out'[i].payload.isSelfKill = FALSE
      ]_vars

\* A legitimate trail kill was handled while both sessions were connected.
C3_Witness ==
    /\ KillObserved
    /\ Has(players, ev.sid)
    /\ ev.data.killedBy # ev.sid
    /\ Has(players, ev.data.killedBy)
    /\ NoSelfKillFlag(ev.data)
    /\ ev.data.collisionType = "trail"
    /\ connected = Sessions
    /\ \E i \in EmitsOf(out, "scoreUpdated") : out[i].payload.score = 1

\* The victim's registry entry is the respawned one.
RespawnedEntry(p, t) ==
    /\ p.trail = <<>>
    /\ p.x = 400
    /\ p.y = 300
    /\ p.direction = "down"
    /\ p.isMoving = FALSE
    /\ p.invincibleUntil = t + 2000
    /\ p.invincibleUntil > t

\* C4: every killPlayer event of a session that has a registered player,
\* whatever its payload and also with no payload object at all, resets the
\* sender's player and emits selfRespawn and serverRespawn.
C4_AlwaysRespawns ==
    (KillObserved /\ Has(players, ev.sid))
        => /\ RespawnedEntry(players[ev.sid], now)
           /\ HasEmit(out, "selfRespawn")
           /\ HasEmit(out, "serverRespawn")

\* C5: right after an accepted killPlayer claim (the sender has a player and
\* the event carries a payload object, so the handler resolves it) the
\* victim's entry has an empty trail, position (400,300), direction down,
\* isMoving false and invincibleUntil = handling time + 2000.
C5_RespawnState ==
    (KillObserved /\ Has(players, ev.sid) /\ ev.data.present)
        => RespawnedEntry(players[ev.sid], now)

\* The victim had left its spawn point and laid a trail segment, the clock
\* had moved on since it joined, and the claim named the other player.
C5_Witness ==
    /\ KillObserved
    /\ ev.data.present
    /\ Len(ev.had) = 1
    /\ Len(ev.had[1].trail) = 1
    /\ ev.had[1].x # 400
    /\ ev.had[1].isMoving
    /\ ev.had[1].direction = "right"
    /\ ev.had[1].invincibleUntil < now + 2000
    /\ ev.data.killedBy \in DOMAIN players \ {ev.sid}
    /\ players[ev.sid].trail = <<>>
    /\ players[ev.sid].invincibleUntil = now + 2000

\* C7: a claim whose killedBy is missing from the payload, or names a session
\* that has disconnected, changes no score, raises no error, and the victim
\* is respawned.
C7_MissingAttributionNoPoints ==
    [][ (observed' /\ ev'.op = "killPlayer" /\ Has(players, ev'.sid)
            /\ ev'.data.present
            /\ (ev'.data.killedBy = "" \/ ev'.data.killedBy \in closed))
        => /\ SameScores(players, players')
           /\ ~threw'
           /\ RespawnedEntry(players'[ev'.sid], now')
           /\ HasEmit(out', "selfRespawn")
      ]_vars

\* The claim names a session that had joined and has disconnected since.
C7_Witness ==
    /\ KillObserved
    /\ ev.data.present
    /\ Len(ev.had) = 1
    /\ ev.data.killedBy \in closed
    /\ removed = 1
    /\ NoSelfKillFlag(ev.data)
    /\ ~threw
    /\ HasEmit(out, "serverRespawn")
    /\ players[ev.sid].score = ev.had[1].score

\* C6: when the claim names no killer, or one that is not a registered
\* player, and no self-kill flag is set, the server emits a scoreUpdated with
\* the victim's id, the victim's unchanged score and isSelfKill = true.
C6_UnresolvedKillerEmitsSelfKill ==
    (KillObserved /\ Has(players, ev.sid) /\ ev.data.present
        /\ (ev.data.killedBy = "" \/ ~Has(players, ev.data.killedBy))
        /\ NoSelfKillFlag(ev.data))
        => \E i \in EmitsOf(out, "scoreUpdated") :
              /\ out[i].payload.id = ev.sid
              /\ out[i].payload.score = players[ev.sid].score
              /\ out[i].payload.isSelfKill = TRUE

\* The step scored a legitimate kill: it is a killPlayer step that takes the
\* branch "legitimate" of the resolver.
LegitimateKillStep ==
    /\ kills' = kills + 1
    /\ \E s \in DOMAIN players, data \in KillDatas :
          /\ data.present
          /\ ScoreBranch(MapSet(players, s, Respawned(players[s])), s, data)
                = "legitimate"
          /\ players' = ScoredPlayers(MapSet(players, s, Respawned(players[s])),
                                      s, data)

\* C8: over any sequence of join, move, killPlayer and disconnect events the
\* score of a session's player never decreases while the session stays
\* connected, and it changes only in the legitimate-kill branch.
C8_ScoreOnlyIncreases ==
    [][ \A s \in connected \cap connected' :
          (Has(players, s) /\ Has(players', s))
             => /\ players'[s].score >= players[s].score
                /\ (players'[s].score # players[s].score => LegitimateKillStep)
      ]_vars

\* C9: the number of players in the registry equals the number of join
\* events processed minus the number of disconnect events processed.
C9_CountIsJoinsMinusDisconnects ==
    Cardinality(DOMAIN players) = joins - disconnects

\* C9 as amended: the number of players in the registry equals the number of
\* join events of sessions that had no player yet minus the number of
\* disconnect events of sessions that had a player.
C9_CountIsRegisteredMinusRemoved ==
    Cardinality(DOMAIN players) = registered - removed

\* A session re-joined, another left without ever joining, and a third event
\* removed a player: the amended count differs from joins - disconnects.
C9_Witness ==
    /\ joins = 3
    /\ disconnects = 2
    /\ registered = 1
    /\ removed = 1
    /\ Cardinality(DOMAIN players) = 0

\* C10: after any number of moves with isMoving = true every registered
\* player's trail has at most 40 segments, and they are the most recently
\* appended ones, in the order they were appended.
C10_TrailCapFifo ==
    \A s \in DOMAIN players :
        LET h == appended[s]
            n == Len(h)
        IN  /\ Len(players[s].trail) <= 40
            /\ players[s].trail = IF n <= 40 THEN h ELSE SubSeq(h, n - 39, n)

\* 42 segments were appended, the clock moved meanwhile, and the two oldest
\* segments are gone.
C10_Witness ==
    /\ Has(players, "s1")
    /\ Len(appended["s1"]) = 42
    /\ Len(players["s1"].trail) = 40
    /\ players["s1"].trail[1] = appended["s1"][3]
    /\ players["s1"].trail[40] = appended["s1"][42]
    /\ appended["s1"][1] # appended["s1"][3]
    /\ players["s1"].trail[1].timestamp < players["s1"].trail[40].timestamp

\* C11: a move with isMoving true appends exactly one segment, at the
\* position the player held before the move and with isInvincible = (now <
\* the invincibleUntil held before the move); the reported position is
\* stored afterwards.
C11_MoveAppendsPreUpdateSegment ==
    (observed /\ ev.op = "move" /\ Has(before, ev.sid)
        /\ ev.data.present /\ ev.data.isMoving = "true")
        => LET b == before[ev.sid]
               a == players[ev.sid]
               seg == [x |-> b.x, y |-> b.y, timestamp |-> now,
                       isInvincible |-> now < b.invincibleUntil]
           IN  /\ a.trail = IF Len(b.trail) < 40
                            THEN Append(b.trail, seg)
                            ELSE Append(Tail(b.trail), seg)
               /\ a.x = ev.data.x
               /\ a.y = ev.data.y

\* The segment lies at the spawn point and is invincible, while the player
\* now stands elsewhere and the move has ended its invincibility.
C11_Witness ==
    /\ observed
    /\ ev.op = "move"
    /\ ev.data.present
    /\ ev.data.isMoving = "true"
    /\ Has(players, ev.sid)
    /\ Len(players[ev.sid].trail) = 1
    /\ players[ev.sid].trail[1].x # players[ev.sid].x
    /\ players[ev.sid].trail[1].isInvincible
    /\ players[ev.sid].invincibleUntil < now

\* C12: a move from a session that has no registered player changes nothing
\* in the registry, emits nothing and raises no error.
C12_MoveWithoutPlayerIsNoOp ==
    (observed /\ ev.op = "move" /\ ~Has(before, ev.sid))
        => /\ players = before
           /\ out = <<>>
           /\ ~threw

\* A connected session that never joined sends a full move payload while
\* another session has a player and would receive a broadcast.
C12_Witness ==
    /\ observed
    /\ ev.op = "move"
    /\ ~Has(players, ev.sid)
    /\ ev.sid \in connected
    /\ ev.data.present
    /\ ev.data.isMoving = "true"
    /\ \E q \in DOMAIN players : q \in connected
    /\ out = <<>>

\* C13: a killPlayer claim from a session that has no registered player
\* emits no playerDied, selfRespawn, serverRespawn or scoreUpdated and
\* changes no player's state or score, also when killedBy names a
\* registered player.
C13_KillWithoutVictimAborts ==
    (KillObserved /\ ~Has(before, ev.sid))
        => /\ players = before
           /\ \A i \in 1..Len(out) :
                 out[i].event \notin {"playerDied", "selfRespawn",
                                      "serverRespawn", "scoreUpdated"}

\* The sender never joined and names a registered, connected player as its
\* killer with no self-kill flag set.
C13_Witness ==
    /\ KillObserved
    /\ ~Has(before, ev.sid)
    /\ ev.sid \in connected
    /\ ev.data.present
    /\ ev.data.killedBy \in DOMAIN before
    /\ ev.data.killedBy \in connected
    /\ ev.data.collisionType = "trail"
    /\ NoSelfKillFlag(ev.data)
    /\ players[ev.data.killedBy].score = 0

\* C14: a disconnect of a session that is not in the registry emits no
\* playerLeft, raises no error and leaves the registry as it was.
C14_DisconnectAbsentIsNoOp ==
    (observed /\ ev.op = "disconnect" /\ ~Has(before, ev.sid))
        => /\ players = before
           /\ ~HasEmit(out, "playerLeft")
           /\ ~threw

\* A session that never joined disconnects while a registered session is
\* connected and would receive a broadcast.
C14_Witness ==
    /\ observed
    /\ ev.op = "disconnect"
    /\ ~Has(before, ev.sid)
    /\ ev.sid \in closed
    /\ \E q \in DOMAIN players : q \in connected
    /\ out = <<>>

\* C15: a disconnect of a registered session removes exactly that player
\* and emits exactly one playerLeft carrying its id to all open sessions in
\* the same step, after which the id is absent; in every handler step the
\* number of playerLeft events equals the number of players removed.
C15_RemovalAtomicWithPlayerLeft ==
    observed
        => /\ Cardinality(EmitsOf(out, "playerLeft"))
                = Cardinality(DOMAIN before \ DOMAIN players)
           /\ (ev.op = "disconnect" /\ Has(before, ev.sid))
                => /\ ~Has(players, ev.sid)
                   /\ DOMAIN players = DOMAIN before \ {ev.sid}
                   /\ \A q \in DOMAIN players : players[q] = before[q]
                   /\ Cardinality(EmitsOf(out, "playerLeft")) = 1
                   /\ \A i \in EmitsOf(out, "playerLeft") :
                         /\ out[i].payload = ev.sid
                         /\ out[i].to = connected

\* A registered session disconnects while another registered session stays
\* connected and receives the playerLeft.
C15_Witness ==
    /\ observed
    /\ ev.op = "disconnect"
    /\ Has(before, ev.sid)
    /\ Cardinality(DOMAIN before) = 2
    /\ Cardinality(DOMAIN players) = 1
    /\ Len(out) = 1
    /\ out[1].event = "playerLeft"
    /\ out[1].to = DOMAIN players

JoinObserved == observed /\ ev.op = "join"

\* C16: a join emits init with the new player to the joiner only,
\* playerJoined with the new player to every other open session and not the
\* joiner, and existingPlayers to the joiner with exactly the players
\* registered at that moment other than the joiner.
C16_JoinEmits ==
    JoinObserved
        => /\ Cardinality(EmitsOf(out, "init")) = 1
           /\ Cardinality(EmitsOf(out, "playerJoined")) = 1
           /\ Cardinality(EmitsOf(out, "existingPlayers")) = 1
           /\ \A i \in EmitsOf(out, "init") :
                 out[i].to = {ev.sid} /\ out[i].payload = players[ev.sid]
           /\ \A i \in EmitsOf(out, "playerJoined") :
                 /\ out[i].to = connected \ {ev.sid}
                 /\ out[i].payload = players[ev.sid]
           /\ \A i \in EmitsOf(out, "existingPlayers") :
                 /\ out[i].to = {ev.sid}
                 /\ out[i].payload
                      = {before[q] : q \in DOMAIN before \ {ev.sid}}

\* The joiner finds another registered, connected player that has moved.
C16_Witness ==
    /\ JoinObserved
    /\ Len(out) = 3
    /\ \E q \in DOMAIN before \ {ev.sid} :
          /\ q \in connected
          /\ Len(before[q].trail) = 1
          /\ out[2].to = {q}
          /\ out[3].payload = {before[q]}

\* C17: a player created by join has id = the session id, score 0, an
\* empty trail, direction down, isMoving false and invincibleUntil = join
\* time + 2000, which lies in the future.
C17_JoinedPlayerState ==
    JoinObserved
        => LET p == players[ev.sid]
           IN  /\ p.id = ev.sid
               /\ p.score = 0
               /\ p.trail = <<>>
               /\ p.direction = "down"
               /\ p.isMoving = FALSE
               /\ p.invincibleUntil = now + 2000
               /\ p.invincibleUntil > now

\* A first join at the later clock value, next to a player whose own
\* invincibility window has run out.
C17_Witness ==
    /\ JoinObserved
    /\ ~Has(before, ev.sid)
    /\ now > StartTime
    /\ players[ev.sid].username = ev.data.username
    /\ \E q \in DOMAIN before : before[q].invincibleUntil <= now

\* C18: a move of a registered session that carries a payload emits exactly
\* one playerMoved, to every open session but the sender, and the trail in
\* it is the registry's trail of the sender, not the trail the client sent.
C18_PlayerMovedToOthersWithServerTrail ==
    (observed /\ ev.op = "move" /\ Has(before, ev.sid) /\ ev.data.present)
        => /\ Len(out) = 1
           /\ out[1].event = "playerMoved"
           /\ out[1].to = connected \ {ev.sid}
           /\ ev.sid \notin out[1].to
           /\ out[1].payload.trail = players[ev.sid].trail

\* The client sent a trail that differs from the one the server keeps, and
\* another session is open to receive the delta.
C18_Witness ==
    /\ observed
    /\ ev.op = "move"
    /\ Has(before, ev.sid)
    /\ ev.data.present
    /\ ev.data.trail # <<>>
    /\ ev.data.trail # players[ev.sid].trail
    /\ Len(players[ev.sid].trail) = 1
    /\ connected \ {ev.sid} # {}
    /\ Len(out) = 1

KillAccepted == KillObserved /\ Has(before, ev.sid) /\ ev.data.present

\* C19: for an accepted kill claim every open session other than the victim
\* receives serverRespawn with the victim's id, and the victim's session
\* does not receive it.
C19_ServerRespawnToOthersOnly ==
    KillAccepted
        => /\ HasEmit(out, "serverRespawn")
           /\ \A i \in EmitsOf(out, "serverRespawn") :
                 /\ out[i].payload.id = ev.sid
                 /\ connected \ {ev.sid} \subseteq out[i].to
                 /\ ev.sid \notin out[i].to

\* C20: an accepted kill claim emits exactly one selfRespawn, to the victim's
\* session only, and its x, y and invincibleUntil are those of the
\* serverRespawn of the same claim and those stored in the registry.
C20_SelfRespawnToVictimOnly ==
    KillAccepted
        => /\ Cardinality(EmitsOf(out, "selfRespawn")) = 1
           /\ Cardinality(EmitsOf(out, "serverRespawn")) = 1
           /\ \A i \in EmitsOf(out, "selfRespawn") :
                 /\ out[i].to = {ev.sid}
                 /\ out[i].payload.x = players[ev.sid].x
                 /\ out[i].payload.y = players[ev.sid].y
                 /\ out[i].payload.invincibleUntil
                      = players[ev.sid].invincibleUntil
                 /\ \A j \in EmitsOf(out, "serverRespawn") :
                       /\ out[j].payload.x = out[i].payload.x
                       /\ out[j].payload.y = out[i].payload.y
                       /\ out[j].payload.invincibleUntil
                            = out[i].payload.invincibleUntil

\* The victim had moved away and the clock had advanced since it joined;
\* another session is open and does not get the selfRespawn.
C20_Witness ==
    /\ KillAccepted
    /\ before[ev.sid].x # players[ev.sid].x
    /\ now > StartTime
    /\ connected \ {ev.sid} # {}
    /\ \E i \in EmitsOf(out, "selfRespawn") :
          out[i].payload.invincibleUntil = now + 2000

\* C21: no join, move or killPlayer event lowers the invincibleUntil of a
\* registered player whose window is active (now < invincibleUntil).
C21_ActiveWindowNeverShortened ==
    (observed /\ ev.op \in {"join", "move", "killPlayer"})
        => \A q \in DOMAIN before \cap DOMAIN players :
              now < before[q].invincibleUntil
                 => players[q].invincibleUntil >= before[q].invincibleUntil

\* C24: a requestPlayerData(playerId) for a registered player is answered:
\* the server sends that player's current state to the requesting session.
C24_RequestPlayerDataAnswered ==
    (observed /\ ev.op = "requestPlayerData" /\ Has(before, ev.data.id))
        => \E i \in 1..Len(out) :
              /\ ev.sid \in out[i].to
              /\ out[i].payload = players[ev.data.id]

\* C22: every registered player's position is within the arena at all
\* times: 20 <= x <= 780 and 20 <= y <= 580.
C22_PositionsWithinArena ==
    \A q \in DOMAIN players :
        /\ 20 <= players[q].x /\ players[q].x <= 780
        /\ 20 <= players[q].y /\ players[q].y <= 580

\* C23: when a palette colour is used by no registered player, the colour
\* given to a newly joined player differs from the colour of every player
\* registered at that moment.
C23_NewColourUnused ==
    LET others == DOMAIN before \ {ev.sid}
    IN  (JoinObserved
            /\ Cardinality({before[q].color : q \in others}) < 16)
        => \A q \in others : players[ev.sid].color # before[q].color

\* C25: if any self-kill boolean of the claim is true (isSelfKill,
\* killerIsDeadPlayer, deadPlayerIsKiller, killerIdMatchesVictimId,
\* selfKillConfirmed, trailOwnerEqualsVictim, victimEqualsCollider), the
\* claim increments no player's score.
C25_AnySelfKillFlagSuppressesScoring ==
    (KillAccepted
        /\ \/ ev.data.isSelfKill = "true"
           \/ ev.data.killerIsDeadPlayer = "true"
           \/ ev.data.deadPlayerIsKiller = "true"
           \/ ev.data.killerIdMatchesVictimId = "true"
           \/ ev.data.selfKillConfirmed = "true"
           \/ ev.data.trailOwnerEqualsVictim = "true"
           \/ ev.data.victimEqualsCollider = "true")
        => SameScores(before, players)

\* C25 for the four flags the handler evaluates: none of them, when true,
\* lets the claim increment a score.
C25_ReadFlagsSuppressScoring ==
    (KillAccepted
        /\ \/ ev.data.isSelfKill = "true"
           \/ ev.data.killerIsDeadPlayer = "true"
           \/ ev.data.deadPlayerIsKiller = "true"
           \/ ev.data.killerIdMatchesVictimId = "true")
        => SameScores(before, players)

\* C26: a killPlayer claim respawns only the player of the sending session,
\* whatever id, victimId or killedBy the payload carries, and leaves the
\* position, direction, isMoving, trail and invincibleUntil of every other
\* registered player unchanged.
C26_VictimIsSender ==
    KillObserved
        => /\ DOMAIN players = DOMAIN before
           /\ KillAccepted => RespawnedEntry(players[ev.sid], now)
           /\ \A q \in DOMAIN before \ {ev.sid} :
                 [players[q] EXCEPT !.score = 0] = [before[q] EXCEPT !.score = 0]

\* The payload's id, victimId and killedBy all name the other player, who
\* has moved and laid a trail; only the sender is sent to the centre.
C26_Witness ==
    /\ KillAccepted
    /\ ev.data.id # ev.sid
    /\ ev.data.victimId # ev.sid
    /\ ev.data.killedBy = ev.data.id
    /\ Has(before, ev.data.id)
    /\ Len(before[ev.data.id].trail) = 1
    /\ players[ev.data.id].trail = before[ev.data.id].trail
    /\ players[ev.data.id].x # 400
    /\ players[ev.sid].x = 400

\* C27: in every playerDied and scoreUpdated event of a claim the victim
\* name is the registry username of the sender and the killer name is the
\* registry username of the player the event's id names, whatever the
\* claim's killedUsername and killerUsername say.
C27_NamesFromRegistry ==
    KillObserved
        => /\ \A i \in EmitsOf(out, "playerDied") :
                 out[i].payload.username = before[ev.sid].username
           /\ \A i \in EmitsOf(out, "scoreUpdated") :
                 /\ out[i].payload.killedUsername = before[ev.sid].username
                 /\ Has(before, out[i].payload.id)
                 /\ out[i].payload.username
                      = before[out[i].payload.id].username

\* The claim carries names that belong to no player, and the score update
\* names another player as the killer.
C27_Witness ==
    /\ KillAccepted
    /\ ev.data.killedUsername \notin {before[q].username : q \in DOMAIN before}
    /\ ev.data.killerUsername \notin {before[q].username : q \in DOMAIN before}
    /\ HasEmit(out, "playerDied")
    /\ \E i \in EmitsOf(out, "scoreUpdated") :
          /\ out[i].payload.id # ev.sid
          /\ out[i].payload.username # out[i].payload.killedUsername

\* C28: a trail death the client reports (killPlayer with collisionType
\* "trail") is never caused by a segment whose isInvincible flag is true.
C28_InvincibleSegmentsHarmless ==
    \A i \in 1..Len(lastClaim) :
        lastClaim[i].data.collisionType = "trail"
            => ~lastClaim[i].segment[1].isInvincible

\* C28, as the code has it: a trail death the client reports is caused by a
\* segment within the trail collision radius, of a trail whose owner is not
\* invincible in the client's view at that time; the segment's isInvincible
\* flag does not matter.
C28_TrailDeathOnlyFromVulnerableOwner ==
    \A i \in 1..Len(lastClaim) :
        lastClaim[i].data.collisionType = "trail" =>
            LET c == lastClaim[i]
                me == Get(checked.players, c.data.id)
            IN  /\ ~(c.at < c.killer.invincibleUntil)
                /\ \E k \in 1..Len(c.killer.trail) :
                      c.killer.trail[k] = c.segment[1]
                /\ Within(c.segment[1].x, c.segment[1].y, me.x, me.y,
                          TrailCollisionRadius)

\* A trail death is reported for a segment laid during invincibility, after
\* its owner's window has expired and after the client's own join window.
C28_Witness ==
    \E i \in 1..Len(lastClaim) :
        /\ lastClaim[i].data.collisionType = "trail"
        /\ lastClaim[i].segment[1].isInvincible
        /\ lastClaim[i].killer.invincibleUntil > 0
        /\ lastClaim[i].killer.invincibleUntil <= lastClaim[i].at
        /\ joinGrant <= lastClaim[i].at

\* C29: the client emits no killPlayer claim before the invincibleUntil that
\* the init payload granted has passed.
C29_NoClaimInJoinWindow ==
    \A i \in 1..Len(lastClaim) : ~(lastClaim[i].at < joinGrant)

\* C30: no killPlayer claim names as killedBy a different player that was
\* invincible in the client's view when the collision was detected, for
\* player collisions and for trail collisions alike.
C30_InvinciblePlayerCannotKill ==
    \A i \in 1..Len(lastClaim) :
        lastClaim[i].data.killedBy # lastClaim[i].data.id
            => ~(lastClaim[i].at < lastClaim[i].killer.invincibleUntil)

\* A check ran for a moving, vulnerable, living client while the other
\* player, invincible, stood within the collision radius with a trail
\* segment under the client, and no claim was emitted.
C30_Witness ==
    /\ checked.ran
    /\ lastClaim = <<>>
    /\ ~isDead
    /\ Knows(checked.players, Me)
    /\ Knows(checked.players, Other)
    /\ LET me == Get(checked.players, Me)
           other == Get(checked.players, Other)
       IN  /\ me.isMoving
           /\ ~(checked.at < me.invincibleUntil)
           /\ checked.at < other.invincibleUntil
           /\ Within(other.x, other.y, me.x, me.y, CollisionRadius)
           /\ \E k \in 1..Len(other.trail) :
                 Within(other.trail[k].x, other.trail[k].y, me.x, me.y,
                        TrailCollisionRadius)

C39_SenderCannotScoreItself ==
    (KillObserved /\ Has(before, ev.sid) /\ Has(players, ev.sid))
        => players[ev.sid].score = before[ev.sid].score

\* The recorded step was a join, or a move or kill claim with a payload
\* object of a session that has a player.
Accepted ==
    /\ observed
    /\ \/ ev.op = "join"
       \/ /\ ev.op \in {"move", "killPlayer"}
          /\ Has(before, ev.sid)
          /\ ev.data.present

EventNames(o) == [i \in 1..Len(o) |-> o[i].event]

\* C32: each accepted move, each accepted kill claim and each join performs
\* exactly one outbound emit.
C32_ExactlyOneEmit == Accepted => Len(out) = 1

\* C32, as the code has it: an accepted move performs one emit (playerMoved),
\* a join three (init, playerJoined, existingPlayers) and an accepted kill
\* claim three or four (playerDied, selfRespawn, serverRespawn and at most
\* one scoreUpdated).
C32_EmitsPerOperation ==
    Accepted =>
        CASE ev.op = "move" -> EventNames(out) = << "playerMoved" >>
          [] ev.op = "join" ->
               EventNames(out) = << "init", "playerJoined", "existingPlayers" >>
          [] OTHER ->
               /\ Len(out) \in {3, 4}
               /\ {out[i].event : i \in 1..3} =
                      {"playerDied", "selfRespawn", "serverRespawn"}
               /\ Len(out) = 4 => out[4].event = "scoreUpdated"

\* An accepted kill claim was handled and performed four emits.
C32_Witness ==
    /\ Accepted
    /\ ev.op = "killPlayer"
    /\ Len(out) = 4
    /\ connected = Sessions

\* C33: when a playerMoved, selfRespawn, serverRespawn or scoreUpdated event
\* is emitted, the registry holds the position, invincibleUntil, trail and
\* score the event announces for the player it names.  (No handler changes a
\* field an event announces after it has emitted that event, so the registry
\* the handler leaves is compared.)
C33_RegistryHoldsWhatIsAnnounced ==
    observed =>
        \A i \in 1..Len(out) :
            LET m == out[i].payload
            IN  CASE out[i].event = "playerMoved" ->
                       /\ Has(players, m.id)
                       /\ players[m.id].x = m.x
                       /\ players[m.id].y = m.y
                       /\ players[m.id].invincibleUntil = m.invincibleUntil
                       /\ players[m.id].trail = m.trail
                  [] out[i].event = "selfRespawn" ->
                       /\ players[ev.sid].x = m.x
                       /\ players[ev.sid].y = m.y
                       /\ players[ev.sid].invincibleUntil = m.invincibleUntil
                  [] out[i].event = "serverRespawn" ->
                       /\ Has(players, m.id)
                       /\ players[m.id].x = m.x
                       /\ players[m.id].y = m.y
                       /\ players[m.id].invincibleUntil = m.invincibleUntil
                  [] out[i].event = "scoreUpdated" ->
                       /\ Has(players, m.id)
                       /\ players[m.id].score = m.score
                  [] OTHER -> TRUE

\* C34: an accepted kill claim emits playerDied, then selfRespawn, then
\* serverRespawn, then at most one scoreUpdated; the playerDied of the death
\* and the selfRespawn after it are both addressed to the victim's session.
C34_DeathBeforeRespawn ==
    KillAccepted =>
        /\ EventNames(out) \in
              { << "playerDied", "selfRespawn", "serverRespawn" >>,
                << "playerDied", "selfRespawn", "serverRespawn",
                   "scoreUpdated" >> }
        /\ out[1].payload.id = ev.sid
        /\ ev.sid \in out[1].to
        /\ ev.sid \in out[2].to

\* A kill claim by a second player was accepted with both sessions open and
\* no scoreUpdated followed the respawn (the killer named is not registered).
C34_Witness ==
    /\ KillAccepted
    /\ connected = Sessions
    /\ Len(out) = 3
    /\ ev.data.killedBy \notin {"", ev.sid}

\* new is old with one segment appended at the end and k segments evicted
\* from the front; the segments kept are unchanged.
AppendedEvicting(old, new, k) ==
    /\ k <= Len(old)
    /\ Len(new) = Len(old) + 1 - k
    /\ \A i \in 1..(Len(old) - k) : new[i] = old[i + k]

\* C35: a move never changes a segment already in the trail: the trail of
\* the mover stays as it is or gets one segment at the end, with eviction
\* from the front only; a kill claim empties the victim's trail; the trail
\* of any other player is left alone.
C35_SegmentsImmutable ==
    (observed /\ ev.op \in {"move", "killPlayer"}) =>
        \A q \in DOMAIN before :
            /\ Has(players, q)
            /\ LET old == before[q].trail
                   new == players[q].trail
               IN  IF q # ev.sid \/ ~ev.data.present THEN new = old
                   ELSE IF ev.op = "killPlayer" THEN new = <<>>
                   ELSE IF Truthy(ev.data.isMoving)
                   THEN \E k \in {0, 1} : AppendedEvicting(old, new, k)
                   ELSE new = old

\* A move was made with a full trail whose segments differ in isInvincible:
\* the oldest segment was evicted and the others moved up unchanged.
C35_Witness ==
    /\ observed
    /\ ev.op = "move"
    /\ Has(before, ev.sid)
    /\ Len(before[ev.sid].trail) = 40
    /\ Len(players[ev.sid].trail) = 40
    /\ players[ev.sid].trail[1] = before[ev.sid].trail[2]
    /\ players[ev.sid].trail[1] # before[ev.sid].trail[1]
    /\ \E i, j \in 1..40 :
          players[ev.sid].trail[i].isInvincible
             # players[ev.sid].trail[j].isInvincible

\* C36: every playerMoved the server broadcasts carries the session id of
\* the session that sent the move, whatever fields the payload contains.
C36_PlayerMovedIdIsSender ==
    (observed /\ ev.op = "move") =>
        \A i \in EmitsOf(out, "playerMoved") : out[i].payload.id = ev.sid

\* C38: between emitting a killPlayer claim and receiving the selfRespawn
\* for it, the client emits no second killPlayer claim.
C38_OneClaimPerDeath == lastClaim # <<>> => ~checked.awaiting

\* Nothing is in flight between the client of session Me and the server.
Quiet == toServer = <<>> /\ inbox[Me] = <<>>

\* C37: a respawn survives the moves that were in flight.  When the client
\* sent a move between its claim and the selfRespawn that answers it, and
\* sent nothing after that answer, then with every event delivered the
\* registry holds the victim at the arena centre, where the victim's own
\* client holds it, with an empty trail.
C37_RespawnSurvivesInFlightMoves ==
    (/\ Quiet
     /\ race.inFlight
     /\ ~race.later
     /\ ~respawnDue
     /\ currentPlayer = Me
     /\ Has(players, Me))
    => /\ players[Me].x = CenterX
       /\ players[Me].y = CenterY
       /\ Get(clientPlayers, Me).x = players[Me].x
       /\ Get(clientPlayers, Me).y = players[Me].y
       /\ players[Me].trail = <<>>

\* Every event the server has emitted has been handled by its client.
Delivered == \A s \in Sessions : inbox[s] = <<>>

\* The ids a players Map holds.
RosterIds(ps) == {ps[i].id : i \in 1..Len(ps)}

\* C40: the roster of a client mirrors the registry.  With every emitted
\* event delivered, the players Map of each joined client holds the ids of
\* the registry and no other, each with the score the registry holds.
C40_RosterMirrorsRegistry ==
    Delivered =>
        \A s \in connected :
            Has(players, s) =>
                /\ RosterIds(rosters[s]) = DOMAIN players
                /\ \A i \in 1..Len(rosters[s]) :
                      Has(players, rosters[s][i].id) =>
                          rosters[s][i].score = players[rosters[s][i].id].score

\* Reached: after a credited kill and the departure of a player, everything
\* is delivered and the client that stays holds itself alone, with its point.
C40_Witness ==
    /\ Delivered
    /\ removed > 0
    /\ \E s \in connected :
          /\ Has(players, s)
          /\ players[s].score > 0
          /\ RosterIds(rosters[s]) = {s}
          /\ Get(rosters[s], s).score = players[s].score

====
